---- MODULE Spec2Model ----
(***************************************************************************)
(* A model of the BIC-MOBO trial pipeline: the geometry editor             *)
(* (EICMoboTools/GeometryEditor.py), the file-name grammar and the stage   *)
(* generators (EICMOBOTestTools), the run wrappers (RunObjectives.py,      *)
(* interfaces/RunObjectives.py, scripts/run-mobo-en-brut.py) and the       *)
(* objective extractor (objectives/BICEnergyResolution.py).                *)
(*                                                                         *)
(* Python strings on which the code does string surgery (replace, join,    *)
(* basename) are sequences of one-character strings, so that               *)
(* "d/e.xml" is <<"d","/","e",".","x","m","l">>.  Names that the code only  *)
(* compares or uses as dictionary keys stay TLA+ strings.                  *)
(***************************************************************************)
EXTENDS Integers, Sequences, FiniteSets, TLC

VARIABLES
    fs,        \* the file system: path -> file (a finite function)
    pc,        \* per worker: where it is in the geometry / generator calls
    tag,       \* per worker: the tag of the trial it runs
    cur,       \* per worker: the arguments of the EditCompact call in progress
    target,    \* per worker: fileToEdit, the path __GetCompact returned
    tree,      \* per worker: treeToEdit, the parsed document
    calls,     \* per worker: the EditCompact calls that have returned, in order
    gclog,     \* per worker: one record per __GetCompact call that has returned
    written,   \* per worker: the paths it has created or opened for writing
    cmd,       \* per worker: the command the last MakeCommand returned
    copylog,   \* the (worker, path) pairs of the copyfile calls made so far
    wopen,     \* the (worker, path) pairs currently open for writing
    clock,     \* microseconds of wall clock since the first evaluation could start
    rpc,       \* per run worker: where it is in its RunObjectives call
    rkind,     \* per run worker: which wrapper it runs
    rtag,      \* per run worker: the tag of its trial
    rkw,       \* per run worker: the keyword arguments of its call
    ext,       \* per run worker: the external trial process it launched
    result,    \* per run worker: what its call returned or raised
    itrial,    \* per run of the sweep script: its trial counter
    reso,      \* the CalculateReso call in progress
    nm,        \* the calls of the naming functions under comparison
    cp,        \* the call of the configuration parser in progress
    rg,        \* two RecGenerators: their argParams, and the calls made on them
    gn,        \* the generators of one trial: their cfgRun, and their call in progress
    sw         \* the brute-force sweep: its loop variables and the jobs it submitted

geoVars == <<pc, tag, cur, target, tree, calls, gclog, written, cmd,
            copylog, wopen>>
runVars == <<clock, rpc, rkind, rtag, rkw, ext, result, itrial>>
resoVars == <<reso>>
pureVars == <<nm, cp, rg, gn, sw>>
vars == <<fs, geoVars, runVars, resoVars, pureVars>>

-----------------------------------------------------------------------------
(* Bounds of the model *)

\* EditCompact calls of one worker, when it runs alone
MaxCalls == 2
\* EditCompact calls of each worker, when two workers run concurrently
MaxConcCalls == 1

-----------------------------------------------------------------------------
(* Python string operations *)

IsPrefix(p, s) == Len(p) <= Len(s) /\ SubSeq(s, 1, Len(p)) = p

\* str.replace(old, new): every non-overlapping occurrence, leftmost first.
RECURSIVE Replace(_, _, _)
Replace(s, old, new) ==
    IF s = <<>> THEN <<>>
    ELSE IF IsPrefix(old, s)
         THEN new \o Replace(SubSeq(s, Len(old) + 1, Len(s)), old, new)
         ELSE <<Head(s)>> \o Replace(Tail(s), old, new)

\* "{}".format(n) for a non-negative integer.
Digit(n) == <<"0", "1", "2", "3", "4", "5", "6", "7", "8", "9">>[n + 1]

RECURSIVE ToStr(_)
ToStr(n) == IF n < 10 THEN <<Digit(n)>> ELSE ToStr(n \div 10) \o <<Digit(n % 10)>>

\* The index of the last occurrence of character c in s, 0 when there is none.
RECURSIVE LastIndex(_, _)
LastIndex(s, c) ==
    IF s = <<>> THEN 0
    ELSE IF s[Len(s)] = c THEN Len(s)
    ELSE LastIndex(SubSeq(s, 1, Len(s) - 1), c)

\* a base name that keeps the directory part
Basename_Whole(p) == p

\* os.path.basename: what follows the last "/".
Basename(p) == SubSeq(p, LastIndex(p, "/") + 1, Len(p))

\* The number of leading "." characters of s.
RECURSIVE LeadingDots(_)
LeadingDots(s) ==
    IF s # <<>> /\ Head(s) = "." THEN 1 + LeadingDots(Tail(s)) ELSE 0

\* os.path.splitext(p)[0]: p without its last extension; a "." that only
\* follows leading dots of the base name starts no extension.
SplitextRoot(p) ==
    LET dot  == LastIndex(p, ".")
        sep  == LastIndex(p, "/")
        lead == LeadingDots(SubSeq(p, sep + 1, Len(p)))
    IN  IF dot > sep + lead THEN SubSeq(p, 1, dot - 1) ELSE p

-----------------------------------------------------------------------------
(* String literals of the code *)

DotXml  == <<".", "x", "m", "l">>
DotRoot == <<".", "r", "o", "o", "t">>
DotTxt  == <<".", "t", "x", "t">>
DotSh   == <<".", "s", "h">>
StSim   == <<"s", "i", "m">>
StRec   == <<"r", "e", "c">>
StAna   == <<"a", "n", "a">>
Aid2e   == <<"a", "i", "d", "2", "e", "_">>
DoAid2e == <<"d", "o", "_">> \o Aid2e

-----------------------------------------------------------------------------
(* EICMOBOTestTools/FileManager.py *)

\* a grammar without suffixes
GetSuffix_None(stage, analysis) == <<>>

ConvertSteeringToTag(steer) ==
    Replace(SplitextRoot(Basename(steer)), <<".">>, <<"_">>)

GetSuffix(stage, analysis) ==
    IF stage = StSim THEN <<".", "e", "d", "m", "4", "h", "e", "p">>
    ELSE IF stage = StRec THEN <<".", "e", "d", "m", "4", "e", "i", "c">>
    ELSE IF stage = StAna THEN <<"_">> \o analysis
    ELSE <<>>

MakeOutName(t, label, steer, stage, analysis, prefix) ==
    LET pre == IF prefix = <<>> THEN Aid2e ELSE Aid2e \o prefix \o <<"_">>
        suffix == GetSuffix(stage, analysis)
    IN  pre \o stage \o <<".">> \o t \o <<"_">> \o label \o <<"_">> \o steer
            \o suffix \o DotRoot

MakeScriptName(t, label, steer, stage) ==
    DoAid2e \o stage \o <<".">> \o t \o <<"_">> \o label \o <<"_">> \o steer \o DotSh

-----------------------------------------------------------------------------
(* The configuration the workers run with *)

Procs == {"w1", "w2"}
Tags  == {<<"A">>, <<"B">>}

\* environment configuration: det_path and det_config
cfgEnviro == [det_path |-> <<"d">>, det_config |-> <<"c">>]

\* parameter configuration: one entry per design parameter.  "stave1" and
\* "stave2" live in the same compact file; the compact of "snout" is named
\* without the ".xml" extension, the one of "gap" holds ".xml" twice.
cfgParams ==
    [stave1 |-> [compact |-> <<"e">> \o DotXml, path |-> "stave1",
                 element |-> "value", units |-> <<>>],
     stave2 |-> [compact |-> <<"e">> \o DotXml, path |-> "stave2",
                 element |-> "value", units |-> <<>>],
     snout  |-> [compact |-> <<"g">>, path |-> "snout",
                 element |-> "length", units |-> <<"c", "m">>],
     gap    |-> [compact |-> <<"h">> \o DotXml \o DotXml, path |-> "gap",
                 element |-> "width", units |-> <<"m", "m">>],
     ghost  |-> [compact |-> <<"e">> \o DotXml, path |-> "ghost",
                 element |-> "value", units |-> <<>>]]

Params == {cfgParams[n] : n \in DOMAIN cfgParams}
Values == {0, 7}

\* the documents of the shared base files as installed
BaseDoc(compact) ==
    IF compact = <<"e">> \o DotXml
    THEN [stave1 |-> [value |-> <<"1">>], stave2 |-> [value |-> <<"1">>]]
    ELSE IF compact = <<"g">>
    THEN [snout |-> [length |-> <<"5", "*", "c", "m">>]]
    ELSE [gap |-> [width |-> <<"2", "*", "m", "m">>]]

XmlFile(doc) == [kind |-> "xml", whole |-> TRUE, doc |-> doc]
\* a file just opened for writing: truncated, nothing written yet
Truncated == [kind |-> "xml", whole |-> FALSE, doc |-> <<>>]

BasePath(compact) == cfgEnviro.det_path \o <<"/">> \o compact
ConfigPath == cfgEnviro.det_path \o <<"/">> \o cfgEnviro.det_config \o DotXml
Compacts  == {p.compact : p \in Params}
BasePaths == {BasePath(c) : c \in Compacts} \cup {ConfigPath}

\* the file system before any trial: the shared base files, and the roots
\* under which the trials' output and run directories are made
InstalledFs ==
    [q \in BasePaths \cup {<<"o">>, <<"r">>} |->
        IF q \in {<<"o">>, <<"r">>} THEN [kind |-> "dir"]
        ELSE IF q = ConfigPath
        THEN XmlFile([include |-> [ref |-> <<"e">> \o DotXml]])
        ELSE XmlFile(BaseDoc(CHOOSE c \in Compacts : BasePath(c) = q))]

Exists(f, path) == path \in DOMAIN f
Put(f, path, file) == (path :> file) @@ f

-----------------------------------------------------------------------------
(* EICMoboTools/GeometryEditor.py *)

\* __GetCompact, lines 53-55: the path of the tag-qualified compact file
NewCompact(param, t) ==
    LET oldCompact == cfgEnviro.det_path \o <<"/">> \o param.compact
        newSuffix  == <<"_">> \o t \o DotXml
    IN  Replace(oldCompact, DotXml, newSuffix)

\* __GetConfig, lines 77-79: the path of the tag-qualified configuration file
NewConfig(t) ==
    LET oldConfig == cfgEnviro.det_path \o <<"/">> \o cfgEnviro.det_config \o DotXml
        newSuffix == <<"_">> \o t \o DotXml
    IN  Replace(oldConfig, DotXml, newSuffix)

\* ConfigParser.GetPathElementAndUnits(param)
GetPathElementAndUnits(param) == <<param.path, param.element, param.units>>

\* an editor that drops the unit
FormatValue_Bare(value, unit) == ToStr(value)

\* the attribute string EditCompact sets, lines 111-114
FormatValue(value, unit) ==
    IF unit # <<>> THEN ToStr(value) \o <<"*">> \o unit ELSE ToStr(value)

\* Element.set(elem, text) on the element at path
SetAttr(doc, path, elem, text) ==
    [doc EXCEPT ![path] = (elem :> text) @@ doc[path]]

\* a materializer that copies the base whether or not the target exists
NeedsCopy_Always(f, newPath) == TRUE

\* __GetCompact, line 58 (and __GetConfig, line 82): the test that guards the copy
NeedsCopy(f, newPath) == ~Exists(f, newPath)

\* one record of gclog: a __GetCompact call that has returned, the path it
\* returned, whether it copied the base, and the file at that path on return
GcEntry(p, path, copied, found) ==
    [compact |-> cur[p].param.compact, path |-> path, copied |-> copied,
     found |-> found]

\* The caller fixes the tag of its trial and passes it to every call.
StartTrial(p, t) ==
    /\ pc[p] = "start"
    /\ tag' = [tag EXCEPT ![p] = t]
    /\ pc' = [pc EXCEPT ![p] = "idle"]
    /\ UNCHANGED <<fs, cur, target, tree, calls, gclog, written, cmd, wopen, copylog>>

\* EditCompact(param, value, tag) is entered (at most limit calls a worker).
EditCompact_Call(p, param, value, limit) ==
    /\ pc[p] = "idle"
    /\ Len(calls[p]) < limit
    /\ cur' = [cur EXCEPT ![p] = [param |-> param, value |-> value]]
    /\ pc' = [pc EXCEPT ![p] = "GetCompact"]
    /\ UNCHANGED <<fs, tag, target, tree, calls, gclog, written, cmd, wopen, copylog>>

\* __GetCompact, lines 53-58: name the target and test whether it exists.
\* When it does, the call returns it as it is (line 62).
GetCompact_Exists(p) ==
    /\ pc[p] = "GetCompact"
    /\ LET newCompact == NewCompact(cur[p].param, tag[p])
       IN  /\ target' = [target EXCEPT ![p] = newCompact]
           /\ IF NeedsCopy(fs, newCompact)
              THEN /\ pc' = [pc EXCEPT ![p] = "copyfile"]
                   /\ UNCHANGED gclog
              ELSE /\ pc' = [pc EXCEPT ![p] = "parse"]
                   /\ gclog' = [gclog EXCEPT ![p] =
                          Append(@, GcEntry(p, newCompact, FALSE, fs[newCompact]))]
    /\ UNCHANGED <<fs, tag, cur, tree, calls, written, cmd, wopen, copylog>>

\* shutil.copyfile(oldCompact, newCompact), line 59, first half: the
\* destination is opened for writing, which creates or truncates it.
Copyfile_Open(p) ==
    /\ pc[p] = "copyfile"
    /\ fs' = Put(fs, target[p], Truncated)
    /\ written' = [written EXCEPT ![p] = @ \cup {target[p]}]
    /\ wopen' = wopen \cup {<<p, target[p]>>}
    /\ copylog' = copylog \cup {<<p, target[p]>>}
    /\ pc' = [pc EXCEPT ![p] = "copying"]
    /\ UNCHANGED <<tag, cur, target, tree, calls, gclog, cmd>>

\* shutil.copyfile, second half: the content of the base is written and the
\* destination closed; __GetCompact returns (line 62).
Copyfile_Write(p) ==
    /\ pc[p] = "copying"
    /\ fs' = Put(fs, target[p], fs[BasePath(cur[p].param.compact)])
    /\ wopen' = wopen \ {<<p, target[p]>>}
    /\ gclog' = [gclog EXCEPT ![p] = Append(@, GcEntry(p, target[p], TRUE, fs'[target[p]]))]
    /\ pc' = [pc EXCEPT ![p] = "parse"]
    /\ UNCHANGED <<tag, cur, target, tree, calls, written, cmd, copylog>>

\* EditCompact, line 103: ET.parse(fileToEdit); a file that another writer
\* has truncated does not parse, and the call ends with a ParseError.
Parse(p) ==
    /\ pc[p] = "parse"
    /\ IF fs[target[p]].whole
       THEN /\ tree' = [tree EXCEPT ![p] = fs[target[p]].doc]
            /\ pc' = [pc EXCEPT ![p] = "edit"]
       ELSE /\ pc' = [pc EXCEPT ![p] = "ParseError"]
            /\ UNCHANGED tree
    /\ UNCHANGED <<fs, tag, cur, target, calls, gclog, written, cmd, wopen, copylog>>

\* EditCompact, lines 107-117: find the element, set the attribute, and open
\* fileToEdit for writing (ElementTree.write truncates it).  find() gives
\* None for a path that is not in the document, and None.set raises.
Edit_Open(p) ==
    /\ pc[p] = "edit"
    /\ LET pe   == GetPathElementAndUnits(cur[p].param)
           path == pe[1]
           elem == pe[2]
           unit == pe[3]
       IN  IF path \in DOMAIN tree[p]
           THEN /\ tree' = [tree EXCEPT ![p] =
                       SetAttr(@, path, elem, FormatValue(cur[p].value, unit))]
                /\ fs' = Put(fs, target[p], Truncated)
                /\ written' = [written EXCEPT ![p] = @ \cup {target[p]}]
                /\ wopen' = wopen \cup {<<p, target[p]>>}
                /\ pc' = [pc EXCEPT ![p] = "writing"]
           ELSE /\ pc' = [pc EXCEPT ![p] = "AttributeError"]
                /\ UNCHANGED <<tree, fs, written, wopen>>
    /\ UNCHANGED <<tag, cur, target, calls, gclog, cmd, copylog>>

\* EditCompact, lines 117-118: the document is written, the file closed, and
\* the call returns.
Write_Close(p) ==
    /\ pc[p] = "writing"
    /\ fs' = Put(fs, target[p], XmlFile(tree[p]))
    /\ wopen' = wopen \ {<<p, target[p]>>}
    /\ calls' = [calls EXCEPT ![p] = Append(@, cur[p])]
    /\ pc' = [pc EXCEPT ![p] = "idle"]
    /\ UNCHANGED <<tag, cur, target, tree, gclog, written, cmd, copylog>>

\* __GetConfig(tag) is entered (its caller fixes the order: the configuration
\* file is materialized after the compact edits of the trial).
GetConfig_Call(p) ==
    /\ pc[p] = "idle"
    /\ pc' = [pc EXCEPT ![p] = "GetConfig"]
    /\ UNCHANGED <<fs, tag, cur, target, tree, calls, gclog, written, cmd, wopen, copylog>>

\* __GetConfig, lines 77-82: name the target and test whether it exists.
GetConfig_Exists(p) ==
    /\ pc[p] = "GetConfig"
    /\ LET newConfig == NewConfig(tag[p])
       IN  /\ target' = [target EXCEPT ![p] = newConfig]
           /\ pc' = [pc EXCEPT ![p] =
                  IF NeedsCopy(fs, newConfig) THEN "cfg_copyfile" ELSE "sim"]
    /\ UNCHANGED <<fs, tag, cur, tree, calls, gclog, written, cmd, wopen, copylog>>

\* shutil.copyfile(oldConfig, newConfig), line 83, first half.
ConfigCopy_Open(p) ==
    /\ pc[p] = "cfg_copyfile"
    /\ fs' = Put(fs, target[p], Truncated)
    /\ written' = [written EXCEPT ![p] = @ \cup {target[p]}]
    /\ wopen' = wopen \cup {<<p, target[p]>>}
    /\ copylog' = copylog \cup {<<p, target[p]>>}
    /\ pc' = [pc EXCEPT ![p] = "cfg_copying"]
    /\ UNCHANGED <<tag, cur, target, tree, calls, gclog, cmd>>

\* shutil.copyfile, second half; __GetConfig returns (line 86).
ConfigCopy_Write(p) ==
    /\ pc[p] = "cfg_copying"
    /\ fs' = Put(fs, target[p], fs[ConfigPath])
    /\ wopen' = wopen \ {<<p, target[p]>>}
    /\ pc' = [pc EXCEPT ![p] = "sim"]
    /\ UNCHANGED <<tag, cur, target, tree, calls, gclog, written, cmd, copylog>>

-----------------------------------------------------------------------------
(* EICMOBOTestTools/SimGenerator.py and RecGenerator.py *)

\* the run configuration file of the installation
RunConfig ==
    [out_path |-> <<"o">>, run_path |-> <<"r">>, sim_exec |-> <<"n">>,
     rec_exec |-> <<"k">>, epic_setup |-> <<"u">>, log_path |-> <<"l">>,
     rec_collect |-> << <<"H">>, <<"C">> >>]

\* self.cfgRun: what ReadJsonFile gave for the run configuration file the
\* generators were made with
cfgRun == gn.cfgRun

\* the input sample of the trials: label, steering file and its location
InLabel == <<"s">>
InSteer == <<"c", ".", "e", ".", "p", "y">>
InPath  == <<"i">>
InType  == "gun"

DirFile == [kind |-> "dir"]
ScriptFile(lines) == [kind |-> "script", mode |-> "0o777", lines |-> lines]

\* a MakeDir that makes the directory anew, without what was in it
MakeDir_Recreate(f, path) ==
    [q \in {x \in DOMAIN f : ~IsPrefix(path \o <<"/">>, x)} \cup {path} |->
        IF q = path THEN DirFile ELSE f[q]]

\* FileManager.MakeDir(path): creates the directory when nothing is there
MakeDir(f, path) == IF ~Exists(f, path) THEN Put(f, path, DirFile) ELSE f

\* the paths MakeDir(path) creates
MakeDirCreates(f, path) == IF ~Exists(f, path) THEN {path} ELSE {}

OutDir(t) == cfgRun.out_path \o <<"/">> \o t
RunDir(t) == cfgRun.run_path \o <<"/">> \o t

\* a simulation command that names its output without the trial's directory
SimCommand_Bare(t, label, path, steer, inType) ==
    cfgRun.sim_exec
        \o <<" ", "-", "-", "o", "u", "t", "p", "u", "t", "F", "i", "l", "e", " ">>
        \o MakeOutName(t, label, ConvertSteeringToTag(steer), StSim, <<>>, <<>>)

\* SimGenerator.MakeCommand: the command string
SimCommand(t, label, path, steer, inType) ==
    LET steeTag == ConvertSteeringToTag(steer)
        outFile == MakeOutName(t, label, steeTag, StSim, <<>>, <<>>)
        outDir  == OutDir(t)
        compact == <<" ", "-", "-", "c", "o", "m", "p", "a", "c", "t", "F", "i",
                     "l", "e", " ", "$", "D", "E", "T", "E", "C", "T", "O", "R",
                     "_", "P", "A", "T", "H", "/", "$", "D", "E", "T", "E", "C",
                     "T", "O", "R", "_", "C", "O", "N", "F", "I", "G", ".", "x",
                     "m", "l">>
        steerer == <<" ", "-", "-", "s", "t", "e", "e", "r", "i", "n", "g", "F",
                     "i", "l", "e", " ">> \o path \o <<"/">> \o steer
        output  == <<" ", "-", "-", "o", "u", "t", "p", "u", "t", "F", "i", "l",
                     "e", " ">> \o outDir \o <<"/">> \o outFile
        command == cfgRun.sim_exec \o compact \o steerer
    IN  (IF inType = "gun" THEN command \o <<" ", "-", "G", " ">> ELSE command)
            \o output

\* a join that puts the separator after every collection
RECURSIVE JoinCollects_Trailing(_, _)
JoinCollects_Trailing(list, icollect) ==
    IF icollect >= Len(list) THEN <<>>
    ELSE list[icollect + 1] \o <<",">> \o JoinCollects_Trailing(list, icollect + 1)

\* RecGenerator.MakeCommand, lines 73-81: the collections, comma-separated
RECURSIVE JoinCollects(_, _)
JoinCollects(list, icollect) ==
    IF icollect >= Len(list) THEN <<>>
    ELSE (IF icollect + 1 < Len(list)
          THEN list[icollect + 1] \o <<",">>
          ELSE list[icollect + 1])
         \o JoinCollects(list, icollect + 1)

\* flags that leave the units out
RECURSIVE ParamFlags_Bare(_)
ParamFlags_Bare(args) ==
    IF args = <<>> THEN <<>>
    ELSE <<" ", "-", "P">> \o Head(args).path \o <<"=", "\"">>
             \o ToStr(Head(args).value) \o <<"\"">> \o ParamFlags_Bare(Tail(args))

\* RecGenerator.MakeCommand, lines 88-94: one -P flag per accumulated argument
RECURSIVE ParamFlags(_)
ParamFlags(args) ==
    IF args = <<>> THEN <<>>
    ELSE LET a == Head(args)
         IN  <<" ", "-", "P">> \o a.path \o <<"=", "\"">>
                 \o (IF a.units # <<>>
                     THEN ToStr(a.value) \o <<"*">> \o a.units
                     ELSE ToStr(a.value))
                 \o <<"\"">> \o ParamFlags(Tail(args))

\* RecGenerator.MakeCommand: the command string; args is argParams in
\* insertion order
RecCommand(t, label, steer, args) ==
    LET steeTag == ConvertSteeringToTag(steer)
        inFile  == MakeOutName(t, label, steeTag, StSim, <<>>, <<>>)
        outFile == MakeOutName(t, label, steeTag, StRec, <<>>, <<>>)
        outDir  == OutDir(t)
        outArg  == <<"-", "P", "p", "o", "d", "i", "o", ":", "o", "u", "t", "p",
                     "u", "t", "_", "f", "i", "l", "e", "=">>
                       \o outDir \o <<"/">> \o outFile
        collArg == <<"-", "P", "p", "o", "d", "i", "o", ":", "o", "u", "t", "p",
                     "u", "t", "_", "c", "o", "l", "l", "e", "c", "t", "i", "o",
                     "n", "s", "=">> \o JoinCollects(cfgRun.rec_collect, 0)
    IN  cfgRun.rec_exec \o <<" ">> \o outArg \o <<" ">> \o collArg
            \o ParamFlags(args) \o <<" ">> \o outDir \o <<"/">> \o inFile

\* FileManager.MakeSetCommands(setup, config)
MakeSetCommands(setup, config) ==
    << <<"s", "o", "u", "r", "c", "e", " ">> \o setup,
       <<"e", "x", "p", "o", "r", "t", " ", "D", "E", "T", "E", "C", "T", "O",
         "R", "_", "C", "O", "N", "F", "I", "G", "=">> \o config >>

Shebang == <<"#", "!", "/", "b", "i", "n", "/", "b", "a", "s", "h">>

\* the path and the lines of the script SimGenerator.MakeScript writes
SimScriptPath(t, label, steer) ==
    RunDir(t) \o <<"/">>
        \o MakeScriptName(t, label, ConvertSteeringToTag(steer), StSim)

SimScriptLines(config, command) ==
    LET setInstall == <<"s", "o", "u", "r", "c", "e", " ">> \o cfgRun.epic_setup
        setConfig  == <<"D", "E", "T", "E", "C", "T", "O", "R", "_", "C", "O",
                        "N", "F", "I", "G", "=">> \o config
    IN  <<Shebang, <<>>, setInstall, setConfig, <<>>, command>>

\* the path and the lines of the script RecGenerator.MakeScript writes
RecScriptPath(t, label, steer) ==
    RunDir(t) \o <<"/">>
        \o MakeScriptName(t, label, ConvertSteeringToTag(steer), StRec)

RecScriptLines(config, command) ==
    LET set == MakeSetCommands(cfgRun.epic_setup, config)
    IN  <<Shebang, <<>>, set[1], set[2], <<>>, command>>

\* the detector configuration a trial's scripts select: the name of its
\* configuration file without directory and ".xml"
ConfigName(t) == Replace(Basename(NewConfig(t)), DotXml, <<>>)

\* SimGenerator.MakeCommand(tag, label, path, steer, inType)
Sim_MakeCommand(p) ==
    /\ pc[p] = "sim"
    /\ fs' = MakeDir(fs, OutDir(tag[p]))
    /\ written' = [written EXCEPT ![p] = @ \cup MakeDirCreates(fs, OutDir(tag[p]))]
    /\ cmd' = [cmd EXCEPT ![p] = SimCommand(tag[p], InLabel, InPath, InSteer, InType)]
    /\ pc' = [pc EXCEPT ![p] = "sim_script"]
    /\ UNCHANGED <<tag, cur, target, tree, calls, gclog, wopen, copylog>>

\* SimGenerator.MakeScript(tag, label, steer, config, command)
Sim_MakeScript(p) ==
    /\ pc[p] = "sim_script"
    /\ LET simPath == SimScriptPath(tag[p], InLabel, InSteer)
       IN  /\ fs' = Put(MakeDir(fs, RunDir(tag[p])), simPath,
                        ScriptFile(SimScriptLines(ConfigName(tag[p]), cmd[p])))
           /\ written' = [written EXCEPT ![p] =
                  @ \cup MakeDirCreates(fs, RunDir(tag[p])) \cup {simPath}]
    /\ pc' = [pc EXCEPT ![p] = "rec"]
    /\ UNCHANGED <<tag, cur, target, tree, calls, gclog, cmd, wopen, copylog>>

\* RecGenerator.MakeCommand(tag, label, steer)
Rec_MakeCommand(p) ==
    /\ pc[p] = "rec"
    /\ fs' = MakeDir(fs, OutDir(tag[p]))
    /\ written' = [written EXCEPT ![p] = @ \cup MakeDirCreates(fs, OutDir(tag[p]))]
    /\ cmd' = [cmd EXCEPT ![p] = RecCommand(tag[p], InLabel, InSteer, <<>>)]
    /\ pc' = [pc EXCEPT ![p] = "rec_script"]
    /\ UNCHANGED <<tag, cur, target, tree, calls, gclog, wopen, copylog>>

\* RecGenerator.MakeScript(tag, label, steer, config, command)
Rec_MakeScript(p) ==
    /\ pc[p] = "rec_script"
    /\ LET recPath == RecScriptPath(tag[p], InLabel, InSteer)
       IN  /\ fs' = Put(MakeDir(fs, RunDir(tag[p])), recPath,
                        ScriptFile(RecScriptLines(ConfigName(tag[p]), cmd[p])))
           /\ written' = [written EXCEPT ![p] =
                  @ \cup MakeDirCreates(fs, RunDir(tag[p])) \cup {recPath}]
    /\ pc' = [pc EXCEPT ![p] = "done"]
    /\ UNCHANGED <<tag, cur, target, tree, calls, gclog, cmd, wopen, copylog>>

-----------------------------------------------------------------------------
(* Calls of the naming functions and of the command builders *)

\* the keys the names are made from
KeyTags == { <<"T", "1">>,
      <<"A">> }
KeyLabels == { <<"s", "i", "n", "g", "l", "e", "_", "e", "l", "e", "c", "t", "r", "o", "n">>,
      <<"s">>,
      <<"s", "_", "t">> }
KeySteerTags == { <<"c", "e", "n", "t", "r", "a", "l", "_", "e", "5", "e", "l", "e">>,
      <<"c">>,
      <<"t", "_", "c">> }
KeyStages == { StSim, StRec, StAna, <<"x">> }

\* steering file names, as the callers give them
SteerNames == { <<"c", "e", "n", "t", "r", "a", "l", ".", "e", "5", "e", "l", "e", ".", "p", "y">>,
      <<"d", ".", "d", "/", "c", ".", "p", "y">>,
      <<"x">>,
      <<".", "p", "y">>,
      <<"a", ".">>,
      <<"d", "/">> }

\* the flags AddParamToArgs has accumulated when a command is built
ArgParams == { <<>>, << [path |-> <<"q">>, units |-> <<"m", "m">>, value |-> 7] >> }

NoNames == <<>>

NameCall(op, key, ret) == [op |-> op, key |-> key, ret |-> ret]

\* FileManager.MakeOutName(tag, label, steer, stage, analysis)
MakeOutName_Call(t, label, steer, stage, analysis) ==
    /\ Len(nm) < 2
    /\ nm' = Append(nm, NameCall("MakeOutName", <<t, label, steer, stage, analysis>>,
                                 MakeOutName(t, label, steer, stage, analysis, <<>>)))
    /\ UNCHANGED fs

\* FileManager.MakeScriptName(tag, label, steer, stage)
MakeScriptName_Call(t, label, steer, stage) ==
    /\ Len(nm) < 2
    /\ nm' = Append(nm, NameCall("MakeScriptName", <<t, label, steer, stage>>,
                                 MakeScriptName(t, label, steer, stage)))
    /\ UNCHANGED fs

\* FileManager.ConvertSteeringToTag(steer)
ConvertSteeringToTag_Call(steer) ==
    /\ Len(nm) < 2
    /\ nm' = Append(nm, NameCall("ConvertSteeringToTag", <<steer>>,
                                 ConvertSteeringToTag(steer)))
    /\ UNCHANGED fs

\* SimGenerator.MakeCommand(tag, label, path, steer, inType)
SimGenerator_MakeCommand(t, label, path, steer, inType) ==
    /\ Len(nm) < 2
    /\ fs' = MakeDir(fs, OutDir(t))
    /\ nm' = Append(nm, NameCall("SimCommand", <<t, label, steer>>,
                                 SimCommand(t, label, path, steer, inType)))

\* RecGenerator.MakeCommand(tag, label, steer), with args accumulated
RecGenerator_MakeCommand(t, label, steer, args) ==
    /\ Len(nm) < 2
    /\ fs' = MakeDir(fs, OutDir(t))
    /\ nm' = Append(nm, NameCall("RecCommand", <<t, label, steer>>,
                                 RecCommand(t, label, steer, args)))

\* the caller has the two names it wanted and starts over
Names_Done ==
    /\ Len(nm) = 2
    /\ nm' = NoNames
    /\ UNCHANGED fs
-----------------------------------------------------------------------------
(* The configuration parser: EICMoboTools/ConfigParser.py *)

\* lines 11-50: the names bound in the module's own namespace
ModuleGlobals ==
    {"json", "os", "sys", "ReadJsonFile", "GetParameter", "GetDesignParamNames"}

\* how a call ends; the message of an exception is kept in parts, the
\* interpolated values being parts of their own
Returned(val) == [kind |-> "return", val |-> val]
Raised(err, msg) == [kind |-> "raise", err |-> err, msg |-> msg]

\* bool(entry): an empty object is false
Truthy(entry) == DOMAIN entry # {}

\* the json files a caller names: what json.loads gives for each, or no file.
\* Parameter files (the one entry of the second is an empty object), and run
\* configuration files: the installation's, one without each key (named by
\* that key), and three with other lists of collections
ConfigFiles ==
    [ params |-> [isfile |-> TRUE,
                  data |-> [parameters |->
                      [enable_staves_1 |-> [compact |-> <<"e">> \o DotXml,
                                            path |-> "stave1"],
                       snout_length |-> [compact |-> <<"g">>, path |-> "snout"]]]],
      sparse |-> [isfile |-> TRUE,
                  data |-> [parameters |-> [enable_staves_1 |-> <<>>]]],
      nofile |-> [isfile |-> FALSE, data |-> <<>>],
      run    |-> [isfile |-> TRUE, data |-> RunConfig],
      none   |-> [isfile |-> TRUE, data |-> [RunConfig EXCEPT !.rec_collect = <<>>]],
      one    |-> [isfile |-> TRUE,
                  data |-> [RunConfig EXCEPT !.rec_collect = << <<"H">> >>]],
      three  |-> [isfile |-> TRUE,
                  data |-> [RunConfig EXCEPT
                               !.rec_collect = << <<"H">>, <<"C">>, <<"T">> >>]] ]
    @@ [key \in DOMAIN RunConfig |->
           [isfile |-> TRUE,
            data |-> [k \in DOMAIN RunConfig \ {key} |-> RunConfig[k]]]]

\* ReadJsonFile(jsonFile), lines 15-29
ReadJsonFile(jsonFile) ==
    IF ~ConfigFiles[jsonFile].isfile
    THEN Raised("SystemExit", <<"1">>)
    ELSE Returned(ConfigFiles[jsonFile].data)

\* GetParameter(parameter, configFile), lines 31-47.  Line 43 reads the
\* global name ConfigParser before anything else.
GetParameter(parameter, configFile) ==
    IF "ConfigParser" \notin ModuleGlobals
    THEN Raised("NameError", <<"name '", "ConfigParser", "' is not defined">>)
    ELSE LET read == ReadJsonFile(configFile)
         IN  IF read.kind = "raise" THEN read
             ELSE LET config == read.val.parameters
                  IN  IF parameter \notin DOMAIN config
                      THEN Raised("KeyError", <<parameter>>)
                      ELSE IF Truthy(config[parameter])
                      THEN Returned(config[parameter])
                      ELSE Raised("NameError",
                               <<"Parameter {parameter} not found in file {configFile}!">>)

NoParse == [op |-> "none"]

\* a caller asks for one parameter
GetParameter_Call(parameter, configFile) ==
    /\ cp.op = "none"
    /\ cp' = [op |-> "GetParameter", parameter |-> parameter,
              configFile |-> configFile, out |-> GetParameter(parameter, configFile)]

\* the placeholder and the family key of the design parameters
Fill == <<"_", "f", "i", "l", "l", "_">>
FamilyKey == <<"s", "t", "a", "v", "e">> \o Fill

\* dataDict: one family, whose value is a list that starts with the number
\* of instances (or is empty), or a bare number
DataDicts ==
    { << <<FamilyKey, v>> >> :
        v \in { [list |-> TRUE, items |-> <<3>>], [list |-> TRUE, items |-> <<1>>],
                [list |-> TRUE, items |-> <<0>>], [list |-> TRUE, items |-> <<>>],
                [list |-> FALSE, number |-> 3] } }

\* rangeDict: entries, some of them empty, for the family and for some of
\* its instances
RangeDicts ==
    LET keys == { FamilyKey, Replace(FamilyKey, Fill, ToStr(1)),
                  Replace(FamilyKey, Fill, ToStr(2)) }
    IN  UNION { [ks -> { <<>>, <<0, 1>>, <<5, 6>> }] : ks \in SUBSET keys }

\* bool(rangeDict.get(key1)), line 55: no entry, or an empty one, is false
HasRange(rangeDict, key1) ==
    key1 \in DOMAIN rangeDict /\ rangeDict[key1] # <<>>

\* GetDesignParamNames(dataDict, rangeDict) is entered, lines 50-52
GetDesignParamNames_Call(dataDict, rangeDict) ==
    /\ cp.op = "none"
    /\ cp' = [op |-> "GetDesignParamNames", dataDict |-> dataDict,
              rangeDict |-> rangeDict, ikey |-> 1, i |-> 1,
              designParams |-> <<>>, out |-> Returned(<<>>), pc |-> "loop"]

\* a loop that passes over a concrete key with no entry of either kind
GetDesignParamNames_Step_Skip ==
    /\ cp.op = "GetDesignParamNames"
    /\ cp.pc = "loop"
    /\ cp.ikey <= Len(cp.dataDict)
    /\ LET key   == cp.dataDict[cp.ikey][1]
           value == cp.dataDict[cp.ikey][2]
           key1  == Replace(key, Fill, ToStr(cp.i))
       IN  IF ~value.list \/ value.items = <<>>
           THEN cp' = [cp EXCEPT !.pc = "done",
                          !.out = Raised("TypeError", <<"no instance count">>)]
           ELSE IF cp.i > value.items[1]
           THEN cp' = [cp EXCEPT !.ikey = @ + 1, !.i = 1]
           ELSE IF HasRange(cp.rangeDict, key1)
           THEN cp' = [cp EXCEPT !.i = @ + 1,
                          !.designParams = (key1 :> cp.rangeDict[key1]) @@ @]
           ELSE IF key \in DOMAIN cp.rangeDict
           THEN cp' = [cp EXCEPT !.i = @ + 1,
                          !.designParams = (key1 :> cp.rangeDict[key]) @@ @]
           ELSE cp' = [cp EXCEPT !.i = @ + 1]

\* lines 52-58: the next step of the two loops: the range of a family is
\* taken from value[0], and one concrete key gets its entry
GetDesignParamNames_Step ==
    /\ cp.op = "GetDesignParamNames"
    /\ cp.pc = "loop"
    /\ cp.ikey <= Len(cp.dataDict)
    /\ LET key   == cp.dataDict[cp.ikey][1]
           value == cp.dataDict[cp.ikey][2]
           key1  == Replace(key, Fill, ToStr(cp.i))
       IN  IF ~value.list
           THEN cp' = [cp EXCEPT !.pc = "done",
                          !.out = Raised("TypeError", <<"'int' object is not subscriptable">>)]
           ELSE IF value.items = <<>>
           THEN cp' = [cp EXCEPT !.pc = "done",
                          !.out = Raised("IndexError", <<"list index out of range">>)]
           ELSE IF cp.i > value.items[1]
           THEN cp' = [cp EXCEPT !.ikey = @ + 1, !.i = 1]
           ELSE IF HasRange(cp.rangeDict, key1)
           THEN cp' = [cp EXCEPT !.i = @ + 1,
                          !.designParams = (key1 :> cp.rangeDict[key1]) @@ @]
           ELSE IF key \in DOMAIN cp.rangeDict
           THEN cp' = [cp EXCEPT !.i = @ + 1,
                          !.designParams = (key1 :> cp.rangeDict[key]) @@ @]
           ELSE cp' = [cp EXCEPT !.pc = "done", !.out = Raised("KeyError", <<key>>)]

\* line 59: return designParams
GetDesignParamNames_Return ==
    /\ cp.op = "GetDesignParamNames"
    /\ cp.pc = "loop"
    /\ cp.ikey > Len(cp.dataDict)
    /\ cp' = [cp EXCEPT !.pc = "done", !.out = Returned(cp.designParams)]

\* the caller has the outcome and may call again
ConfigParser_Done ==
    /\ cp.op # "none"
    /\ cp.op = "GetDesignParamNames" => cp.pc = "done"
    /\ cp' = NoParse
-----------------------------------------------------------------------------
(* The accumulated arguments of RecGenerator: EICMOBOTestTools/RecGenerator.py *)

\* the calls one caller makes on its generators
MaxOps == 4

\* two generators with no argument yet, and no call made
NoArgs == [argParams |-> [g \in {"a", "b"} |-> <<>>], log |-> <<>>]

\* the parameters a caller adds, each with the value it gives it: two of the
\* parameters have the same path
AddedParams ==
    { <<[path |-> <<"q">>, units |-> <<"m", "m">>], 7>>,
      <<[path |-> <<"q">>, units |-> <<>>], 0>>,
      <<[path |-> <<"C", "a", "l", "H", "i", "t", "s", "/", "e", "n", "e", "r",
                    "g", "y">>,
         units |-> <<"G", "e", "V">>], 5>> }

\* a dictionary that takes every update as a new entry
AddParamToArgs_Append(argParams, param, value) ==
    Append(argParams, [path |-> param.path, units |-> param.units, value |-> value])

\* a dictionary that puts a new key before the others
AddParamToArgs_Front(argParams, param, value) ==
    LET entry == [path |-> param.path, units |-> param.units, value |-> value]
        at    == {k \in DOMAIN argParams : argParams[k].path = param.path}
    IN  IF at # {}
        THEN [argParams EXCEPT ![CHOOSE k \in at : TRUE] = entry]
        ELSE <<entry>> \o argParams

\* line 46: self.argParams.update({param["path"] : (param["units"], value)});
\* the dictionary is kept as its items in insertion order: a key that is
\* there keeps its place and takes the new value, a new key goes last
AddParamToArgs(argParams, param, value) ==
    LET entry == [path |-> param.path, units |-> param.units, value |-> value]
        at    == {k \in DOMAIN argParams : argParams[k].path = param.path}
    IN  IF at # {}
        THEN [argParams EXCEPT ![CHOOSE k \in at : TRUE] = entry]
        ELSE Append(argParams, entry)

\* RecGenerator.AddParamToArgs(param, value) on generator g
RecGenerator_AddParamToArgs(g, param, value) ==
    /\ Len(rg.log) < MaxOps
    /\ rg' = [argParams |-> [rg.argParams EXCEPT ![g] = AddParamToArgs(@, param, value)],
              log |-> Append(rg.log, [op |-> "AddParamToArgs", g |-> g,
                                      param |-> param, value |-> value,
                                      t |-> <<>>, ret |-> <<>>])]
    /\ UNCHANGED fs

\* RecGenerator.ClearArgs() on generator g, lines 32-37
RecGenerator_ClearArgs(g) ==
    /\ Len(rg.log) < MaxOps
    /\ rg' = [argParams |-> [rg.argParams EXCEPT ![g] = <<>>],
              log |-> Append(rg.log, [op |-> "ClearArgs", g |-> g,
                                      param |-> <<>>, value |-> 0,
                                      t |-> <<>>, ret |-> <<>>])]
    /\ UNCHANGED fs

\* a MakeCommand that uses its arguments up
RecGenerator_MakeCommand_Consume(g, t) ==
    /\ Len(rg.log) < MaxOps
    /\ fs' = MakeDir(fs, OutDir(t))
    /\ rg' = [argParams |-> [rg.argParams EXCEPT ![g] = <<>>],
              log |-> Append(rg.log, [op |-> "MakeCommand", g |-> g,
                                      param |-> <<>>, value |-> 0, t |-> t,
                                      ret |-> RecCommand(t, InLabel, InSteer,
                                                         rg.argParams[g])])]

\* RecGenerator.MakeCommand(tag, label, steer) on generator g, lines 48-98
RecGenerator_MakeCommand_Self(g, t) ==
    /\ Len(rg.log) < MaxOps
    /\ fs' = MakeDir(fs, OutDir(t))
    /\ rg' = [rg EXCEPT !.log = Append(@, [op |-> "MakeCommand", g |-> g,
                                           param |-> <<>>, value |-> 0, t |-> t,
                                           ret |-> RecCommand(t, InLabel, InSteer,
                                                              rg.argParams[g])])]
-----------------------------------------------------------------------------
(* The generators of one trial and their run configuration:
   EICMOBOTestTools/SimGenerator.py and RecGenerator.py *)

\* generators made from the installation's run configuration, no call yet
NoGen == [cfgRun |-> RunConfig, pc |-> "none", op |-> "none", t |-> <<>>,
          cmd |-> <<>>, out |-> Returned(<<>>), before |-> <<>>]

\* the call in progress ends with the exception exc
GenRaise(op, exc) ==
    gn' = [gn EXCEPT !.pc = "failed", !.op = op, !.out = exc, !.before = fs]

\* self.cfgRun[key] when the run configuration has no such key
NoKey(key) == Raised("KeyError", <<key>>)

\* SimGenerator(run) and RecGenerator(run): each __init__ reads the run
\* configuration file (SimGenerator.py line 30, RecGenerator.py lines 29-30)
Generators_Init(run) ==
    /\ gn.pc = "none"
    /\ IF ReadJsonFile(run).kind = "raise"
       THEN GenRaise("__init__", ReadJsonFile(run))
       ELSE gn' = [gn EXCEPT !.cfgRun = ReadJsonFile(run).val, !.pc = "sim",
                             !.op = "__init__", !.before = fs]
    /\ UNCHANGED fs

\* SimGenerator.MakeCommand(tag, label, path, steer, inType), lines 50-72:
\* out_path is read at line 55, the directory is made at line 56, sim_exec is
\* read at line 66
Gen_SimCommand(t) ==
    /\ gn.pc = "sim"
    /\ IF "out_path" \notin DOMAIN cfgRun
       THEN GenRaise("SimGenerator.MakeCommand", NoKey("out_path")) /\ UNCHANGED fs
       ELSE /\ fs' = MakeDir(fs, OutDir(t))
            /\ IF "sim_exec" \notin DOMAIN cfgRun
               THEN GenRaise("SimGenerator.MakeCommand", NoKey("sim_exec"))
               ELSE gn' = [gn EXCEPT !.pc = "sim_script", !.t = t,
                              !.op = "SimGenerator.MakeCommand", !.before = fs,
                              !.cmd = SimCommand(t, InLabel, InPath, InSteer, InType)]

\* SimGenerator.MakeScript(tag, label, steer, config, command), lines 91-116:
\* run_path is read at line 93, the directory is made at line 94, epic_setup
\* is read at line 102, the script is written at lines 106-113
Gen_SimScript ==
    /\ gn.pc = "sim_script"
    /\ IF "run_path" \notin DOMAIN cfgRun
       THEN GenRaise("SimGenerator.MakeScript", NoKey("run_path")) /\ UNCHANGED fs
       ELSE IF "epic_setup" \notin DOMAIN cfgRun
       THEN /\ fs' = MakeDir(fs, RunDir(gn.t))
            /\ GenRaise("SimGenerator.MakeScript", NoKey("epic_setup"))
       ELSE /\ fs' = Put(MakeDir(fs, RunDir(gn.t)),
                         SimScriptPath(gn.t, InLabel, InSteer),
                         ScriptFile(SimScriptLines(ConfigName(gn.t), gn.cmd)))
            /\ gn' = [gn EXCEPT !.pc = "rec", !.op = "SimGenerator.MakeScript",
                                !.before = fs]

\* RecGenerator.MakeCommand(tag, label, steer), lines 64-98: out_path is read
\* at line 70, the directory is made at line 71, rec_collect is read at line
\* 76 and rec_exec at line 88
Gen_RecCommand ==
    /\ gn.pc = "rec"
    /\ IF "out_path" \notin DOMAIN cfgRun
       THEN GenRaise("RecGenerator.MakeCommand", NoKey("out_path")) /\ UNCHANGED fs
       ELSE /\ fs' = MakeDir(fs, OutDir(gn.t))
            /\ IF "rec_collect" \notin DOMAIN cfgRun
               THEN GenRaise("RecGenerator.MakeCommand", NoKey("rec_collect"))
               ELSE IF "rec_exec" \notin DOMAIN cfgRun
               THEN GenRaise("RecGenerator.MakeCommand", NoKey("rec_exec"))
               ELSE gn' = [gn EXCEPT !.pc = "rec_script",
                              !.op = "RecGenerator.MakeCommand", !.before = fs,
                              !.cmd = RecCommand(gn.t, InLabel, InSteer, <<>>)]

\* RecGenerator.MakeScript(tag, label, steer, config, command), lines 116-143:
\* run_path is read at line 118, the directory is made at line 119,
\* epic_setup is read at line 128, the script is written at lines 133-140
Gen_RecScript ==
    /\ gn.pc = "rec_script"
    /\ IF "run_path" \notin DOMAIN cfgRun
       THEN GenRaise("RecGenerator.MakeScript", NoKey("run_path")) /\ UNCHANGED fs
       ELSE IF "epic_setup" \notin DOMAIN cfgRun
       THEN /\ fs' = MakeDir(fs, RunDir(gn.t))
            /\ GenRaise("RecGenerator.MakeScript", NoKey("epic_setup"))
       ELSE /\ fs' = Put(MakeDir(fs, RunDir(gn.t)),
                         RecScriptPath(gn.t, InLabel, InSteer),
                         ScriptFile(RecScriptLines(ConfigName(gn.t), gn.cmd)))
            /\ gn' = [gn EXCEPT !.pc = "done", !.op = "RecGenerator.MakeScript",
                                !.before = fs]

\* the trial's scripts are written, or a call has failed: the next trial
\* makes its own generators
Gen_Done ==
    /\ gn.pc \in {"done", "failed"}
    /\ gn' = NoGen
    /\ UNCHANGED fs
-----------------------------------------------------------------------------
(* The run wrappers: RunObjectives.py and interfaces/RunObjectives.py *)

Workers == {"r1", "r2"}

\* the clock is followed for this many microseconds
MaxClock == 1

\* the trials one run of the sweep submits here
MaxSweepTrials == 2

\* the instant the clock shows when the first evaluation may start
StartTime == [sec |-> 0, usec |-> 999999]

\* the wall clock after n microseconds
TimeAt(n) ==
    [sec  |-> StartTime.sec + ((StartTime.usec + n) \div 1000000),
     usec |-> (StartTime.usec + n) % 1000000]

\* n in decimal, left-padded with zeros to width w
RECURSIVE Pad(_, _)
Pad(n, w) == IF w = 0 THEN <<>> ELSE Pad(n \div 10, w - 1) \o <<Digit(n % 10)>>

\* str(datetime.datetime.now()): "YYYY-MM-DD HH:MM:SS.ffffff", and without
\* the fraction when the microsecond is 0
TimeStr(t) ==
    <<"2", "0", "2", "5", "-", "1", "0", "-", "0", "9", " ", "1", "0", ":",
      "0", "0", ":">> \o Pad(t.sec, 2)
        \o (IF t.usec = 0 THEN <<>> ELSE <<".">> \o Pad(t.usec, 6))

\* re.sub(r'[.\-:\ ]', '', time)
RECURSIVE StripSeparators(_)
StripSeparators(s) ==
    IF s = <<>> THEN <<>>
    ELSE IF Head(s) \in {".", "-", ":", " "} THEN StripSeparators(Tail(s))
    ELSE <<Head(s)>> \o StripSeparators(Tail(s))

\* RunObjectives.py, lines 49-51: the tag of a trial started at clock n
AxTag(n) ==
    <<"A", "x", "T", "r", "i", "a", "l">> \o StripSeparators(TimeStr(TimeAt(n)))

\* interfaces/RunObjectives.py, line 10: the tag when the caller gives none
NoneTag == <<"N", "o", "n", "e">>

\* the tags a caller passes to interfaces/RunObjectives
CallerTags == {<<"T">>, NoneTag}

\* run-mobo-en-brut.py, line 79: the tag of the sweep's trial number i
BrutTag(i) == <<"B", "r", "u", "t", "T", "r", "i", "a", "l">> \o ToStr(i)

\* the keyword arguments of an evaluation: (name, value) in the caller's order
EnableStaves ==
    <<"e", "n", "a", "b", "l", "e", "_", "s", "t", "a", "v", "e", "s", "_">>

KwargsSet ==
    { << <<EnableStaves \o <<"2">>, 0>>, <<EnableStaves \o <<"3">>, 1>> >>,
      << <<EnableStaves \o <<"2">>, 1>>, <<EnableStaves \o <<"3">>, 1>> >> }

NoKwargs == <<>>

SweepRuns == {"s1", "s2"}

\* run-mobo-en-brut.py, lines 56-63 and MakeParamArgs: the parameterizations
\* in the order of the nested loops, as keyword arguments
SweepParams ==
    << << <<EnableStaves \o <<"2">>, 0>>, <<EnableStaves \o <<"3">>, 0>> >>,
       << <<EnableStaves \o <<"2">>, 0>>, <<EnableStaves \o <<"3">>, 1>> >>,
       << <<EnableStaves \o <<"2">>, 1>>, <<EnableStaves \o <<"3">>, 0>> >>,
       << <<EnableStaves \o <<"2">>, 1>>, <<EnableStaves \o <<"3">>, 1>> >> >>

\* objectives configuration
cfgObj == [objectives |-> {"ElectronEnergyResolution", "PionEnergyResolution", "Cost"}]

\* the objectives a trial computes with an analysis, and the analysis tag
\* that names each one's output file
AnaObjectives == {"ElectronEnergyResolution", "PionEnergyResolution"}
AnaTag == [ElectronEnergyResolution |-> <<"E">>, PionEnergyResolution |-> <<"P">>]

\* TrialManager: the objective -> output file mapping of the trial tagged t
OFiles(t) ==
    [obj \in AnaObjectives |->
        OutDir(t) \o <<"/">>
            \o MakeOutName(t, InLabel, ConvertSteeringToTag(InSteer), StAna,
                           AnaTag[obj], <<>>)]

\* file.replace(".root", ".txt"): the sidecar of an output file
SidecarPath(ofile) == Replace(ofile, DotRoot, DotTxt)

TxtFile(lines) == [kind |-> "txt", lines |-> lines]

\* what an analysis may leave in a sidecar: nothing, a line that is no
\* number, or a number first
SidecarTexts ==
    { <<>>, << <<"x">> >>, << <<"0", ".", "5", "0">>, <<"3">> >> }

\* float(text), for plain decimal text
IsDigit(c) == c \in {"0", "1", "2", "3", "4", "5", "6", "7", "8", "9"}

RECURSIVE FirstIndex(_, _)
FirstIndex(s, c) ==
    IF s = <<>> THEN 1
    ELSE IF Head(s) = c THEN 1 ELSE 1 + FirstIndex(Tail(s), c)

RECURSIVE NatOf(_)
NatOf(digits) ==
    IF digits = <<>> THEN 0
    ELSE 10 * NatOf(SubSeq(digits, 1, Len(digits) - 1))
             + (CHOOSE d \in 0..9 : Digit(d) = digits[Len(digits)])

RECURSIVE StripTrailingZeros(_)
StripTrailingZeros(digits) ==
    IF digits # <<>> /\ digits[Len(digits)] = "0"
    THEN StripTrailingZeros(SubSeq(digits, 1, Len(digits) - 1))
    ELSE digits

IsFloatText(s) ==
    LET dot == FirstIndex(s, ".")
        int == SubSeq(s, 1, dot - 1)
        frac == SubSeq(s, dot + 1, Len(s))
    IN  /\ Len(int) + Len(frac) > 0
        /\ \A i \in 1..Len(int) : IsDigit(int[i])
        /\ \A i \in 1..Len(frac) : IsDigit(frac[i])

Float(s) ==
    LET dot == FirstIndex(s, ".")
    IN  [int  |-> NatOf(SubSeq(s, 1, dot - 1)),
         frac |-> StripTrailingZeros(SubSeq(s, dot + 1, Len(s)))]

\* reading one sidecar: float(lines[0]), or the exception raised
ReadSidecar(f, path) ==
    IF ~Exists(f, path) THEN [ok |-> FALSE, err |-> "FileNotFoundError"]
    ELSE IF f[path].lines = <<>> THEN [ok |-> FALSE, err |-> "IndexError"]
    ELSE IF ~IsFloatText(f[path].lines[1]) THEN [ok |-> FALSE, err |-> "ValueError"]
    ELSE [ok |-> TRUE, val |-> Float(f[path].lines[1])]

\* "sub in s"
Contains(s, sub) ==
    \E i \in 1..(Len(s) - Len(sub) + 1) : SubSeq(s, i, i + Len(sub) - 1) = sub

\* interfaces/RunObjectives.py, lines 66-69: the cost of a parameterization
RECURSIVE CostOf(_)
CostOf(kwargs) ==
    IF kwargs = <<>> THEN 1
    ELSE CostOf(SubSeq(kwargs, 1, Len(kwargs) - 1))
           + (IF Contains(kwargs[Len(kwargs)][1], EnableStaves)
              THEN kwargs[Len(kwargs)][2] ELSE 0)

(* The external trial process: the script of one trial, run by eic-shell.   *)
(* It runs simulation, reconstruction and analysis one after the other; a  *)
(* stage that exits with a non-zero code ends it with that code.  The      *)
(* analysis stage leaves whatever sidecar files it leaves.                 *)

StageOrder == <<"sim", "rec", "ana">>

\* the codes a stage may exit with
ExitCodes == {0, 1}

NoProcess == [state |-> "none", running |-> {}, done |-> <<>>, rc |-> 0]

\* the process is started
Launched == [state |-> "running", running |-> {}, done |-> <<>>, rc |-> 0]

\* a wrapper that goes on as soon as the process is started
ProcessExited_NoWait(e) == e.state # "none"

\* subprocess.run returns only when the process has exited
ProcessExited(e) == e.state = "exited"

\* the script starts its next stage
Ext_StageStart(w) ==
    /\ ext[w].state = "running"
    /\ ext[w].running = {}
    /\ Len(ext[w].done) < Len(StageOrder)
    /\ ext' = [ext EXCEPT ![w].running = {StageOrder[Len(ext[w].done) + 1]}]
    /\ UNCHANGED <<fs, clock, rpc, rkind, rtag, rkw, result, itrial>>

\* the running stage exits with a code; the process ends when the code is
\* not zero or when that was the last stage
Ext_StageExit(w, code) ==
    /\ ext[w].state = "running"
    /\ ext[w].running # {}
    /\ LET s    == CHOOSE x \in ext[w].running : TRUE
           done == Append(ext[w].done, s)
       IN  ext' = [ext EXCEPT ![w] =
               [state   |-> IF code # 0 \/ Len(done) = Len(StageOrder)
                            THEN "exited" ELSE "running",
                running |-> {},
                done    |-> done,
                rc      |-> code]]
    /\ UNCHANGED <<fs, clock, rpc, rkind, rtag, rkw, result, itrial>>

\* the analysis stage writes the sidecar of one objective
Ext_AnaWrite(w, obj, lines) ==
    /\ ext[w].state = "running"
    /\ "ana" \in ext[w].running
    /\ ~Exists(fs, SidecarPath(OFiles(rtag[w])[obj]))
    /\ fs' = Put(fs, SidecarPath(OFiles(rtag[w])[obj]), TxtFile(lines))
    /\ UNCHANGED <<clock, rpc, rkind, rtag, rkw, ext, result, itrial>>

\* time passes
Tick ==
    /\ clock < MaxClock
    /\ clock' = clock + 1
    /\ UNCHANGED <<fs, rpc, rkind, rtag, rkw, ext, result, itrial>>

(* RunObjectives.py *)

\* lines 46-52: RunObjectives(**kwargs) is entered and names the trial
RunObjectives_Tag(w, kwargs) ==
    /\ rpc[w] = "idle"
    /\ rkind' = [rkind EXCEPT ![w] = "ax"]
    /\ rtag' = [rtag EXCEPT ![w] = AxTag(clock)]
    /\ rkw' = [rkw EXCEPT ![w] = kwargs]
    /\ rpc' = [rpc EXCEPT ![w] = "tagged"]
    /\ UNCHANGED <<fs, clock, ext, result, itrial>>

\* lines 81-82: the trial script is made and subprocess.run starts it
RunObjectives_Run(w) ==
    /\ rpc[w] = "tagged"
    /\ ext' = [ext EXCEPT ![w] = Launched]
    /\ rpc' = [rpc EXCEPT ![w] = "waiting"]
    /\ UNCHANGED <<fs, clock, rkind, rtag, rkw, result, itrial>>

\* lines 82-93: subprocess.run has returned (its exit code is not looked at);
\* the sidecar of the electron resolution is read and its first line returned
RunObjectives_Read(w) ==
    /\ rpc[w] = "waiting"
    /\ rkind[w] = "ax"
    /\ ProcessExited(ext[w])
    /\ LET ofResEle == SidecarPath(OFiles(rtag[w])["ElectronEnergyResolution"])
           eResEle  == ReadSidecar(fs, ofResEle)
       IN  IF eResEle.ok
           THEN /\ result' = [result EXCEPT ![w] =
                       [ElectronEnergyResolution |-> eResEle.val]]
                /\ rpc' = [rpc EXCEPT ![w] = "returned"]
           ELSE /\ result' = [result EXCEPT ![w] = [error |-> eResEle.err]]
                /\ rpc' = [rpc EXCEPT ![w] = "raised"]
    /\ UNCHANGED <<fs, clock, rkind, rtag, rkw, ext, itrial>>

(* interfaces/RunObjectives.py *)

\* the objectives read back from the sidecars that exist, lines 53-61
CollectObjectives(f, oFiles) ==
    LET present == {obj \in DOMAIN oFiles : Exists(f, SidecarPath(oFiles[obj]))}
    IN  [obj \in present |-> ReadSidecar(f, SidecarPath(oFiles[obj]))]

\* lines 63-70: Cost is added when the objectives configuration names it
WithCost(objectives, kwargs) ==
    IF "Cost" \in cfgObj.objectives
    THEN [o \in DOMAIN objectives \cup {"Cost"} |->
             IF o = "Cost" THEN CostOf(kwargs) ELSE objectives[o]]
    ELSE objectives

\* lines 41-48: RunObjectives(tag, **kwargs) is entered and DoTrial starts
\* the trial
Interface_Start(w, t, kwargs) ==
    /\ rpc[w] = "idle"
    /\ rkind' = [rkind EXCEPT ![w] = "iface"]
    /\ rtag' = [rtag EXCEPT ![w] = t]
    /\ rkw' = [rkw EXCEPT ![w] = kwargs]
    /\ ext' = [ext EXCEPT ![w] = Launched]
    /\ rpc' = [rpc EXCEPT ![w] = "waiting"]
    /\ UNCHANGED <<fs, clock, result>>

\* a caller runs the wrapper with its own tag, or with none
Interface_Call(w, t, kwargs) ==
    /\ Interface_Start(w, t, kwargs)
    /\ UNCHANGED itrial

\* run-mobo-en-brut.py, lines 75-112: one round of the sweep s; the job it
\* submits runs the wrapper on worker w
Sweep_Submit(s, w) ==
    /\ itrial[s] < MaxSweepTrials
    /\ Interface_Start(w, BrutTag(itrial[s]), SweepParams[itrial[s] + 1])
    /\ itrial' = [itrial EXCEPT ![s] = @ + 1]

\* DoTrial ends when the trial process has exited, with an error when a
\* stage failed
DoTrialRaises(e) == e.rc # 0

\* lines 48-73: DoTrial has returned the output files; the sidecars that
\* exist are read, Cost is added, and the mapping is returned
Interface_Collect(w) ==
    /\ rpc[w] = "waiting"
    /\ rkind[w] = "iface"
    /\ ProcessExited(ext[w])
    /\ LET got == CollectObjectives(fs, OFiles(rtag[w]))
           bad == {obj \in DOMAIN got : ~got[obj].ok}
       IN  IF DoTrialRaises(ext[w])
           THEN /\ result' = [result EXCEPT ![w] = [error |-> "TrialFailed"]]
                /\ rpc' = [rpc EXCEPT ![w] = "raised"]
           ELSE IF bad # {}
           THEN /\ result' = [result EXCEPT ![w] =
                       [error |-> got[CHOOSE obj \in bad : TRUE].err]]
                /\ rpc' = [rpc EXCEPT ![w] = "raised"]
           ELSE /\ result' = [result EXCEPT ![w] =
                       WithCost([obj \in DOMAIN got |-> got[obj].val], rkw[w])]
                /\ rpc' = [rpc EXCEPT ![w] = "returned"]
    /\ UNCHANGED <<fs, clock, rkind, rtag, rkw, ext, itrial>>
-----------------------------------------------------------------------------
(* The objective extractor: objectives/BICEnergyResolution.py *)

\* truth particles: PDG code, mass and momentum, in units that keep the
\* energies whole
SimElectron == [pdg |-> 11, m |-> 0, px |-> 3, py |-> 4, pz |-> 0]
SimPion == [pdg |-> 211, m |-> 5, px |-> 0, py |-> 0, pz |-> 12]

\* truth-cluster associations: a truth particle and the cluster's energy
Assocs ==
    { [sim |-> SimElectron, rec |-> 5],
      [sim |-> SimElectron, rec |-> 4],
      [sim |-> SimPion, rec |-> 13],
      [sim |-> SimPion, rec |-> 60] }

\* the frames of the input files: each is its list of associations
InputFrames ==
    {<<>>} \cup { <<a>> : a \in Assocs } \cup { <<a, b>> : a, b \in Assocs }

\* the output files the extractor is asked to write
OutputFiles == { <<"t", ".", "r", "o", "o", "t">>,
                 <<"o", "/", "a", ".", "r", "o", "o", "t">> }

PdgCodes == {11, 211}

\* np.sqrt, on the squares the inputs give
Sqrt(n) == CHOOSE e \in 0..n : e * e = n

\* lines 62-67: energy of the truth particle
ESim(sim) ==
    Sqrt(sim.px * sim.px + sim.py * sim.py + sim.pz * sim.pz + sim.m * sim.m)

\* line 41: TH1D with 50 bins on [-2, 3); bin 0 is the underflow and
\* bin 51 the overflow
HistBins == [nbins |-> 50, lo |-> -2, hi |-> 3]

\* lines 71-72: the bin that Fill((rec - esim) / esim) increments
FillBin(rec, esim) ==
    LET h   == HistBins
        raw == (((rec - esim) - h.lo * esim) * h.nbins) \div ((h.hi - h.lo) * esim)
    IN  IF raw < 0 THEN 0
        ELSE IF raw >= h.nbins THEN h.nbins + 1
        ELSE raw + 1

\* TH1::Integral(): the entries inside the axis range
Integral(hres) ==
    Cardinality({i \in 1..Len(hres) : hres[i] \in 1..HistBins.nbins})

\* the widths a fit may end on
FitSigmas == { [int |-> 0, frac |-> <<"1">>], [int |-> 0, frac |-> <<"2">>] }

\* TH1::GetRMS() of a histogram without entries
EmptyRMS == [int |-> 0, frac |-> <<>>]

\* lines 77-81: parameter 2 of the fit function after hres.Fit(fres, "r").
\* With nothing to fit, the parameter keeps the value SetParameter gave it;
\* otherwise the minimiser decides.
FitResults(hres) ==
    IF Integral(hres) = 0 THEN {EmptyRMS} ELSE FitSigmas

RootFile(hres, sigma) == [kind |-> "root", hEneRes |-> hres, fEneRes |-> sigma]

NoReso ==
    [pc |-> "idle", frame |-> <<>>, ofile |-> <<>>, pdg |-> 11, iassoc |-> 0,
     hres |-> <<>>, sigma |-> EmptyRMS]

\* lines 21-47: CalculateReso(ifile, ofile, pdg) is entered; the histogram
\* is booked and the input opened
CalculateReso_Call(frame, ofile, pdg) ==
    /\ reso.pc = "idle"
    /\ reso' = [NoReso EXCEPT !.pc = "loop", !.frame = frame, !.ofile = ofile,
                              !.pdg = pdg, !.iassoc = 1]
    /\ UNCHANGED fs

\* lines 54-72: one association of the event loop
CalculateReso_Assoc ==
    /\ reso.pc = "loop"
    /\ reso.iassoc <= Len(reso.frame)
    /\ LET assoc == reso.frame[reso.iassoc]
       IN  reso' = [reso EXCEPT
               !.iassoc = @ + 1,
               !.hres = IF assoc.sim.pdg # reso.pdg THEN @
                        ELSE Append(@, FillBin(assoc.rec, ESim(assoc.sim)))]
    /\ UNCHANGED fs

\* lines 77-81: the Gaussian fit
CalculateReso_Fit(sigma) ==
    /\ reso.pc = "loop"
    /\ reso.iassoc > Len(reso.frame)
    /\ sigma \in FitResults(reso.hres)
    /\ reso' = [reso EXCEPT !.pc = "fitted", !.sigma = sigma]
    /\ UNCHANGED fs

\* lines 86-92: histogram and fit are written to ofile, recreated, and the
\* width is returned
CalculateReso_Save ==
    /\ reso.pc = "fitted"
    /\ fs' = Put(fs, reso.ofile, RootFile(reso.hres, reso.sigma))
    /\ reso' = [reso EXCEPT !.pc = "returned"]

\* the caller takes the returned value; the extractor can be called again
CalculateReso_Done ==
    /\ reso.pc = "returned"
    /\ reso' = NoReso
    /\ UNCHANGED fs
-----------------------------------------------------------------------------
(* The brute-force sweep: scripts/run-mobo-en-brut.py *)

\* a MakeParamArgs whose istave counts from 1
MakeParamArgs_FromOne(parlist) ==
    [k \in 1..Len(parlist) |->
        <<"-", "-">> \o EnableStaves \o ToStr(k) \o <<" ">> \o ToStr(parlist[k])]

\* MakeParamArgs(parlist), lines 17-35: one "--enable_staves_<istave> <par>"
\* for each value, istave counting from 2
MakeParamArgs(parlist) ==
    [k \in 1..Len(parlist) |->
        <<"-", "-">> \o EnableStaves \o ToStr(k + 1) \o <<" ">> \o ToStr(parlist[k])]

\* lines 45-53: the slurm options
slopts ==
    << <<"-", "-", "a", "c", "c", "o", "u", "n", "t", "=", "e", "i", "c">>,
       <<"-", "-", "p", "a", "r", "t", "i", "t", "i", "o", "n", "=", "i",
         "f", "a", "r", "m">>,
       <<"-", "-", "m", "a", "i", "l", "-", "u", "s", "e", "r", "=", "d",
         "e", "r", "e", "k", "a", "@", "j", "l", "a", "b", ".", "o", "r",
         "g">>,
       <<"-", "-", "m", "a", "i", "l", "-", "t", "y", "p", "e", "=", "E",
         "N", "D", ",", "F", "A", "I", "L">>,
       <<"-", "-", "t", "i", "m", "e", "=", "2", "4", ":", "0", "0", ":",
         "0", "0">>,
       <<"-", "-", "m", "e", "m", "=", "8", "G">>,
       <<"-", "-", "c", "p", "u", "s", "-", "p", "e", "r", "-", "t", "a",
         "s", "k", "=", "4">> >>

\* the sweep script before its first statement; the loop variables stave2
\* .. stave6 of lines 57-61 are st[1] .. st[5]
NoSweep == [pc |-> "params", st |-> <<0, 0, 0, 0, 0>>, params |-> <<>>,
            cfg_run |-> <<>>, itrial |-> 0, jobs |-> <<>>]

\* lines 57-63: the innermost loop appends [stave2, .., stave6], and the
\* loops go on to the next values, the innermost variable changing fastest
Sweep_AppendParam ==
    /\ sw.pc = "params"
    /\ LET st   == sw.st
           last == CHOOSE k \in 0..5 :
                       /\ k = 0 \/ st[k] < 1
                       /\ \A j \in (k + 1)..5 : st[j] = 1
       IN  sw' = [sw EXCEPT
                     !.params = Append(@, st),
                     !.st = [j \in 1..5 |-> IF j < last THEN st[j]
                                            ELSE IF j = last THEN st[j] + 1 ELSE 0],
                     !.pc = IF last = 0 THEN "load" ELSE "params"]
    /\ UNCHANGED fs

\* lines 67-75: the run configuration is read, and itrial = 0
Sweep_Load ==
    /\ sw.pc = "load"
    /\ sw' = [sw EXCEPT !.pc = "script", !.itrial = 0,
                        !.cfg_run = ReadJsonFile("run").val]
    /\ UNCHANGED fs

\* line 79: tag = f"BrutTrial{itrial}", and line 90: the path of its script
SlurmPath(i) ==
    sw.cfg_run.run_path \o <<"/", "R", "u", "n">> \o BrutTag(i) \o DotSh

\* lines 79-109: what the script of one parameterization holds
SlurmLines(i, param) ==
    LET t       == BrutTag(i)
        tagarg  == <<"-", "-", "t", "a", "g", " ">> \o t
        out     == <<"-", "-", "o", "u", "t", "p", "u", "t", "=">> \o sw.cfg_run.log_path \o <<"/">> \o t
                       \o <<".", "o", "u", "t">>
        err     == <<"-", "-", "e", "r", "r", "o", "r", "=">> \o sw.cfg_run.log_path \o <<"/">> \o t
                       \o <<".", "e", "r", "r">>
        parargs == MakeParamArgs(param)
        sbatch  == [k \in 1..(Len(slopts) + 2) |->
                       <<"#", "S", "B", "A", "T", "C", "H", " ">>
                           \o (IF k <= Len(slopts) THEN slopts[k]
                               ELSE IF k = Len(slopts) + 1 THEN out ELSE err)]
        kwargs[k \in 0..Len(parargs)] ==
            IF k = 0 THEN tagarg ELSE kwargs[k - 1] \o <<" ">> \o parargs[k]
    IN  <<Shebang>> \o sbatch
            \o << <<>>,
                  <<"p", "y", "t", "h", "o", "n", " ", "b", "/", "i", "n", "t", "e", "r", "f", "a", "c", "e", "s", "/", "R", "u", "n", "O", "b", "j", "e", "c", "t", "i", "v", "e", "s", ".", "p", "y", " ">>
                      \o kwargs[Len(parargs)] >>

\* lines 76-109: the script of the next parameterization is written
Sweep_WriteScript ==
    /\ sw.pc = "script"
    /\ IF sw.itrial >= Len(sw.params)
       THEN sw' = [sw EXCEPT !.pc = "end"] /\ UNCHANGED fs
       ELSE /\ fs' = Put(fs, SlurmPath(sw.itrial),
                         [kind |-> "script", mode |-> "0o644",
                          lines |-> SlurmLines(sw.itrial, sw.params[sw.itrial + 1])])
            /\ sw' = [sw EXCEPT !.pc = "chmod"]

\* line 112: os.chmod(slpath, 0o777)
Sweep_Chmod ==
    /\ sw.pc = "chmod"
    /\ fs' = [fs EXCEPT ![SlurmPath(sw.itrial)].mode = "0o777"]
    /\ sw' = [sw EXCEPT !.pc = "sbatch"]

\* lines 113-114: subprocess.run(["sbatch", slpath]) returns, itrial += 1
Sweep_Sbatch ==
    /\ sw.pc = "sbatch"
    /\ sw' = [sw EXCEPT !.jobs = Append(@, SlurmPath(sw.itrial)),
                        !.itrial = @ + 1, !.pc = "script"]
    /\ UNCHANGED fs
-----------------------------------------------------------------------------
(* Specifications *)

NoCall == [param |-> cfgParams.stave1, value |-> 0]

Init ==
    /\ fs = InstalledFs
    /\ pc = [p \in Procs |-> "start"]
    /\ tag = [p \in Procs |-> <<>>]
    /\ cur = [p \in Procs |-> NoCall]
    /\ target = [p \in Procs |-> <<>>]
    /\ tree = [p \in Procs |-> <<>>]
    /\ calls = [p \in Procs |-> <<>>]
    /\ gclog = [p \in Procs |-> <<>>]
    /\ written = [p \in Procs |-> {}]
    /\ cmd = [p \in Procs |-> <<>>]
    /\ copylog = {}
    /\ wopen = {}
    /\ clock = 0
    /\ rpc = [w \in Workers |-> "idle"]
    /\ rkind = [w \in Workers |-> "none"]
    /\ rtag = [w \in Workers |-> <<>>]
    /\ rkw = [w \in Workers |-> NoKwargs]
    /\ ext = [w \in Workers |-> NoProcess]
    /\ result = [w \in Workers |-> <<>>]
    /\ itrial = [s \in SweepRuns |-> 0]
    /\ reso = NoReso
    /\ nm = NoNames
    /\ cp = NoParse
    /\ rg = NoArgs
    /\ gn = NoGen /\ sw = NoSweep

\* one step of the worker p, which makes at most limit EditCompact calls
Step(p, limit) ==
    \/ \E t \in Tags : StartTrial(p, t)
    \/ \E param \in Params, value \in Values : EditCompact_Call(p, param, value, limit)
    \/ GetCompact_Exists(p)
    \/ Copyfile_Open(p)
    \/ Copyfile_Write(p)
    \/ Parse(p)
    \/ Edit_Open(p)
    \/ Write_Close(p)
    \/ GetConfig_Call(p)
    \/ GetConfig_Exists(p)
    \/ ConfigCopy_Open(p)
    \/ ConfigCopy_Write(p)
    \/ Sim_MakeCommand(p)
    \/ Sim_MakeScript(p)
    \/ Rec_MakeCommand(p)
    \/ Rec_MakeScript(p)

\* trials in parallel workers
Next == (\E p \in Procs : Step(p, MaxConcCalls)) /\ UNCHANGED <<runVars, resoVars, pureVars>>

Spec == Init /\ [][Next]_vars

\* one worker alone
NextSeq == Step("w1", MaxCalls) /\ UNCHANGED <<runVars, resoVars, pureVars>>

SpecSeq == Init /\ [][NextSeq]_vars

\* the start of an evaluation on the run worker w
StartStep(w) ==
    \/ \E kwargs \in KwargsSet : RunObjectives_Tag(w, kwargs)
    \/ \E t \in CallerTags, kwargs \in KwargsSet : Interface_Call(w, t, kwargs)
    \/ \E s \in SweepRuns : Sweep_Submit(s, w)

\* the rest of the evaluation, and the trial process it launched
TrialStep(w) ==
    \/ RunObjectives_Run(w)
    \/ RunObjectives_Read(w)
    \/ Interface_Collect(w)
    \/ Ext_StageStart(w)
    \/ \E code \in ExitCodes : Ext_StageExit(w, code)
    \/ \E obj \in AnaObjectives, lines \in SidecarTexts : Ext_AnaWrite(w, obj, lines)

\* evaluations started in parallel workers, and the clock
NextTags ==
    (Tick \/ \E w \in Workers : StartStep(w)) /\ UNCHANGED <<geoVars, resoVars, pureVars>>

SpecTags == Init /\ [][NextTags]_vars

\* one evaluation from its start to its end, and the clock
NextRun ==
    (Tick \/ StartStep("r1") \/ TrialStep("r1")) /\ UNCHANGED <<geoVars, resoVars, pureVars>>

SpecRun == Init /\ [][NextRun]_vars

\* calls of the objective extractor
NextReso ==
    /\ \/ \E frame \in InputFrames, ofile \in OutputFiles, pdg \in PdgCodes :
              CalculateReso_Call(frame, ofile, pdg)
       \/ CalculateReso_Assoc
       \/ \E sigma \in FitSigmas \cup {EmptyRMS} : CalculateReso_Fit(sigma)
       \/ CalculateReso_Save
       \/ CalculateReso_Done
    /\ UNCHANGED <<geoVars, runVars, pureVars>>

SpecReso == Init /\ [][NextReso]_vars

\* calls of the naming functions and of the command builders, two at a time
NextNames ==
    /\ \/ \E t \in KeyTags, label \in KeyLabels, steer \in KeySteerTags,
             stage \in KeyStages, analysis \in {<<>>, <<"E">>} :
              MakeOutName_Call(t, label, steer, stage, analysis)
       \/ \E t \in KeyTags, label \in KeyLabels, steer \in KeySteerTags,
             stage \in KeyStages :
              MakeScriptName_Call(t, label, steer, stage)
       \/ \E steer \in SteerNames : ConvertSteeringToTag_Call(steer)
       \/ \E t \in KeyTags, label \in KeyLabels, path \in {<<"i">>},
             steer \in SteerNames, inType \in {"gun", "hepmc"} :
              SimGenerator_MakeCommand(t, label, path, steer, inType)
       \/ \E t \in KeyTags, label \in KeyLabels, steer \in SteerNames,
             args \in ArgParams :
              RecGenerator_MakeCommand(t, label, steer, args)
       \/ Names_Done
    /\ UNCHANGED <<cp, rg, gn, sw, geoVars, runVars, resoVars>>

SpecNames == Init /\ [][NextNames]_vars

\* calls of the configuration parser
NextConfig ==
    /\ \/ \E parameter \in {"enable_staves_1", "snout_length", "eanble_satvse_3"},
             configFile \in {"params", "sparse", "nofile"} :
              GetParameter_Call(parameter, configFile)
       \/ \E dataDict \in DataDicts, rangeDict \in RangeDicts :
              GetDesignParamNames_Call(dataDict, rangeDict)
       \/ GetDesignParamNames_Step
       \/ GetDesignParamNames_Return
       \/ ConfigParser_Done
    /\ UNCHANGED <<fs, nm, rg, gn, sw, geoVars, runVars, resoVars>>

SpecConfig == Init /\ [][NextConfig]_vars

\* calls on two RecGenerators made from the same run configuration
NextArgs ==
    /\ \/ \E g \in DOMAIN rg.argParams, a \in AddedParams :
              RecGenerator_AddParamToArgs(g, a[1], a[2])
       \/ \E g \in DOMAIN rg.argParams : RecGenerator_ClearArgs(g)
       \/ \E g \in DOMAIN rg.argParams, t \in KeyTags :
              RecGenerator_MakeCommand_Self(g, t)
    /\ UNCHANGED <<nm, cp, gn, sw, geoVars, runVars, resoVars>>

SpecArgs == Init /\ [][NextArgs]_vars

\* the generators of one trial after another, each made from a run
\* configuration file
NextGen ==
    /\ \/ \E run \in DOMAIN ConfigFiles \ {"params", "sparse"} : Generators_Init(run)
       \/ \E t \in KeyTags : Gen_SimCommand(t)
       \/ Gen_SimScript
       \/ Gen_RecCommand
       \/ Gen_RecScript
       \/ Gen_Done
    /\ UNCHANGED <<nm, cp, rg, sw, geoVars, runVars, resoVars>>

SpecGen == Init /\ [][NextGen]_vars

\* scripts/run-mobo-en-brut.py, main: the statements of the sweep in order
NextSweep ==
    /\ \/ Sweep_AppendParam
       \/ Sweep_Load
       \/ Sweep_WriteScript
       \/ Sweep_Chmod
       \/ Sweep_Sbatch
    /\ UNCHANGED <<nm, cp, rg, gn, geoVars, runVars, resoVars>>

\* the sweep is one sequential process that the interpreter keeps running:
\* each statement that can run does run
SpecSweep == Init /\ [][NextSweep]_vars /\ WF_vars(NextSweep)
-----------------------------------------------------------------------------
(* Properties of the geometry editor *)

\* the document after one EditCompact call's edit
ApplyCall(doc, c) ==
    SetAttr(doc, c.param.path, c.param.element,
            FormatValue(c.value, c.param.units))

\* worker p is between calls and its i-th call was its latest; an earlier
\* call of p named the same compact file with another parameter or value
Recall(p, i) ==
    /\ pc[p] = "idle"
    /\ i = Len(calls[p])
    /\ \E j \in 1..(i - 1) :
          /\ calls[p][j].param.compact = calls[p][i].param.compact
          /\ calls[p][j] # calls[p][i]

\* C1 as stated: when EditCompact is called again for a (compact file, tag)
\* with another parameter or value, the tag-qualified file that the earlier
\* call left on disk is reused unedited: after the later call it still holds
\* what that call found.
C1_ReusedUnedited ==
    \A p \in Procs : \A i \in DOMAIN calls[p] :
        Recall(p, i) => fs[gclog[p][i].path] = gclog[p][i].found

\* C1 as amended: when EditCompact is called again for a (compact file, tag),
\* one call after the other, the later call does not copy the base again; it
\* rewrites the file it found with its own attribute set to its own value and
\* everything else, the earlier call's edits included, as it found it.
C1_EditedInPlace ==
    \A p \in Procs : \A i \in DOMAIN calls[p] :
        Recall(p, i) =>
            /\ ~gclog[p][i].copied
            /\ fs[gclog[p][i].path] =
                   XmlFile(ApplyCall(gclog[p][i].found.doc, calls[p][i]))

\* C1, witness: a second call with another parameter has returned, and the
\* file holds both edits, so it differs from what the second call found.
C1_Witness ==
    \E p \in Procs :
        /\ Recall(p, 2)
        /\ calls[p][1].param.path # calls[p][2].param.path
        /\ fs[gclog[p][2].path] # gclog[p][2].found
        /\ fs[gclog[p][2].path].doc =
               ApplyCall(ApplyCall(BaseDoc(calls[p][1].param.compact),
                                   calls[p][1]), calls[p][2])

\* C2 as stated: materialization is an atomic create-if-absent: whatever the
\* interleaving, at most one worker copies the base to a given target, and no
\* two workers have the target open for writing at once.
C2_AtomicCreate ==
    \A p, q \in Procs : \A path \in DOMAIN fs :
        /\ (<<p, path>> \in copylog /\ <<q, path>> \in copylog) => p = q
        /\ (<<p, path>> \in wopen /\ <<q, path>> \in wopen) => p = q

\* C3 as stated: EditCompact leaves every shared base file as installed, and
\* the file it parses and writes back is never a base path.
C3_BaseUntouched ==
    /\ \A q \in BasePaths : fs[q] = InstalledFs[q]
    /\ \A p \in Procs :
          pc[p] \in {"parse", "edit", "writing"} => target[p] \notin BasePaths

\* C4 as stated: when __GetCompact has been called twice in sequence for the
\* same (base compact, tag), both calls returned the same path, the base was
\* copied to it exactly once, and the second call left the target as it was.
C4_CopiedOnce ==
    \A p \in Procs : \A i, j \in DOMAIN gclog[p] :
        (i < j /\ gclog[p][i].compact = gclog[p][j].compact) =>
            /\ gclog[p][i].path = gclog[p][j].path
            /\ ~gclog[p][j].copied
            /\ Cardinality({k \in DOMAIN gclog[p] :
                               /\ gclog[p][k].compact = gclog[p][i].compact
                               /\ gclog[p][k].copied}) = 1

\* C5 as stated: two trials with distinct tags never create or write the
\* same path.
C5_DisjointWrites ==
    \A p, q \in Procs :
        (pc[p] # "start" /\ pc[q] # "start" /\ tag[p] # tag[q]) =>
            written[p] \cap written[q] = {}

\* the text of value, then "*" and the unit when there is one
ExpectedText(value, units) ==
    LET digits == IF value = 0 THEN <<"0">> ELSE <<"7">>
    IN  IF units = <<>> THEN digits ELSE digits \o <<"*">> \o units

\* C17: when EditCompact(param, value, tag) has returned, the tagged file
\* holds, at the parameter's path and attribute, "{value}*{unit}" when the
\* unit is not empty and "{value}" when it is, and every other element and
\* attribute is as the call found it
C17_RoundTrip ==
    \A p \in Procs :
        (pc[p] = "idle" /\ calls[p] # <<>>) =>
            LET c   == calls[p][Len(calls[p])]
                g   == gclog[p][Len(calls[p])]
                doc == fs[g.path].doc
                was == g.found.doc
            IN  /\ fs[g.path].kind = "xml" /\ fs[g.path].whole
                /\ doc[c.param.path][c.param.element]
                       = ExpectedText(c.value, c.param.units)
                /\ DOMAIN doc = DOMAIN was
                /\ \A path \in DOMAIN was :
                       /\ DOMAIN doc[path] = DOMAIN was[path] \cup
                              (IF path = c.param.path THEN {c.param.element} ELSE {})
                       /\ \A attr \in DOMAIN was[path] :
                              (path # c.param.path \/ attr # c.param.element)
                                  => doc[path][attr] = was[path][attr]

\* a call with a unit and a call without one have returned, and the two
\* files hold "7*mm" and "7"
C17_Witness ==
    /\ pc["w1"] = "idle"
    /\ Len(calls["w1"]) = 2
    /\ calls["w1"][1] = [param |-> cfgParams.gap, value |-> 7]
    /\ calls["w1"][2] = [param |-> cfgParams.stave2, value |-> 7]
    /\ fs[gclog["w1"][1].path].doc["gap"]["width"] = <<"7", "*", "m", "m">>
    /\ fs[gclog["w1"][2].path].doc["stave2"]["value"] = <<"7">>
    /\ fs[gclog["w1"][2].path].doc["stave1"]["value"] = <<"1">>

\* the call in progress of worker p has named a structural path that is not
\* in the document it parsed, and is past the point where it looks for it
Unresolved(p) ==
    /\ Len(gclog[p]) > Len(calls[p])
    /\ pc[p] \notin {"parse", "edit"}
    /\ cur[p].param.path \notin DOMAIN tree[p]

\* C18: when the parameter's structural path is not in the tagged document,
\* EditCompact has ended with StructuralPathNotFoundError and the tagged
\* file is as the call found it
C18_PathNotFound ==
    \A p \in Procs :
        Unresolved(p) =>
            /\ pc[p] = "StructuralPathNotFoundError"
            /\ fs[target[p]] = gclog[p][Len(gclog[p])].found
-----------------------------------------------------------------------------
(* Properties of the run wrappers *)

\* the run worker w has started an evaluation
Started(w) == rpc[w] # "idle"

\* the tag of w's evaluation was made by a wrapper: from the clock, left at
\* the default, or counted by the sweep; the others are the caller's own
Minted(w) ==
    \/ rkind[w] = "ax"
    \/ rtag[w] = NoneTag
    \/ \E i \in 0..MaxSweepTrials : rtag[w] = BrutTag(i)

\* C6: two evaluations started through the run wrappers (clock-derived tag,
\* default tag, or the sweep), also when started at the same time in
\* parallel workers, never carry the same tag
C6_TagsDistinct ==
    \A w1, w2 \in Workers :
        (w1 # w2 /\ Started(w1) /\ Started(w2) /\ Minted(w1) /\ Minted(w2))
            => rtag[w1] # rtag[w2]

\* C7: within a trial the stages run one at a time in pipeline order, each
\* starting only when all stages before it have exited, and a wrapper has
\* read sidecars (it has returned or raised) only when the process it
\* launched has exited
C7_StagesInOrder ==
    \A w \in Workers :
        LET e == ext[w]
        IN  /\ Len(e.done) <= Len(StageOrder)
            /\ \A i \in 1..Len(e.done) : e.done[i] = StageOrder[i]
            /\ Cardinality(e.running) <= 1
            /\ \A s \in e.running :
                   /\ Len(e.done) < Len(StageOrder)
                   /\ s = StageOrder[Len(e.done) + 1]
            /\ rpc[w] \in {"returned", "raised"} => e.state = "exited"

\* a wrapper has returned after a trial whose three stages all ran
C7_Witness ==
    /\ rpc["r1"] = "returned"
    /\ ext["r1"].done = StageOrder
    /\ ext["r1"].state = "exited"

\* C8: when the trial process launched by RunObjectives has exited with a
\* non-zero code, RunObjectives has not returned an objective value
C8_NonZeroExitRaises ==
    \A w \in Workers :
        (rkind[w] = "ax" /\ rpc[w] = "returned") => ext[w].rc = 0

\* C9: when interfaces/RunObjectives returns, every objective of the trial's
\* objective -> output file mapping is in the returned mapping
C9_NoObjectiveDropped ==
    \A w \in Workers :
        (rkind[w] = "iface" /\ rpc[w] = "returned")
            => \A obj \in DOMAIN OFiles(rtag[w]) : obj \in DOMAIN result[w]

\* the sum of the values of the keyword arguments
RECURSIVE SumValues(_)
SumValues(kwargs) ==
    IF kwargs = <<>> THEN 0 ELSE kwargs[1][2] + SumValues(Tail(kwargs))

\* C12: with Cost among the configured objectives, every call of
\* interfaces/RunObjectives that has ended yields Cost = 1 + the sum of the
\* enable_staves_* values, whatever the trial process did or left behind
C12_CostIndependent ==
    \A w \in Workers :
        (rkind[w] = "iface" /\ rpc[w] \in {"returned", "raised"}
                           /\ "Cost" \in cfgObj.objectives)
            => /\ "Cost" \in DOMAIN result[w]
               /\ result[w]["Cost"] = 1 + SumValues(rkw[w])

-----------------------------------------------------------------------------
(* Properties of the objective extractor *)

\* C10: when CalculateReso has returned, the sidecar at ofile with ".root"
\* replaced by ".txt" exists and its first line parses to the returned value
C10_SidecarWritten ==
    reso.pc = "returned" =>
        LET path == SidecarPath(reso.ofile)
        IN  /\ Exists(fs, path)
            /\ fs[path].kind = "txt"
            /\ ReadSidecar(fs, path) = [ok |-> TRUE, val |-> reso.sigma]

\* C11: CalculateReso never returns after an event loop that filled the
\* histogram with no entry (no association had the selected PDG code)
C11_EmptyRaises ==
    reso.pc = "returned" => Len(reso.hres) > 0
-----------------------------------------------------------------------------
(* Properties of the naming functions and of the command builders *)

\* what follows the first occurrence of flag in command
AfterFlag(command, flag) ==
    LET starts == {i \in 1..(Len(command) - Len(flag) + 1) :
                      SubSeq(command, i, i + Len(flag) - 1) = flag}
        first  == CHOOSE i \in starts : \A k \in starts : i <= k
    IN  IF starts = {} THEN <<>>
        ELSE SubSeq(command, first + Len(flag), Len(command))

\* the last blank-separated word of command
LastWord(command) ==
    LET blanks == {i \in 1..Len(command) : command[i] = " "}
        last   == CHOOSE i \in blanks : \A k \in blanks : k <= i
    IN  IF blanks = {} THEN command
        ELSE SubSeq(command, last + 1, Len(command))

OutputFileFlag == <<"-", "-", "o", "u", "t", "p", "u", "t", "F", "i", "l", "e", " ">>

\* C13: for one (tag, label, steering file), the path after --outputFile in
\* the simulation command is the input path that ends the reconstruction
\* command
C13_SimRecAgree ==
    \A i, j \in DOMAIN nm :
        (nm[i].op = "SimCommand" /\ nm[j].op = "RecCommand" /\ nm[i].key = nm[j].key)
            => AfterFlag(nm[i].ret, OutputFileFlag) = LastWord(nm[j].ret)

\* both commands were built for ("T1", "single_electron", "central.e5ele.py")
\* and name the same simulation file under out_path/T1
C13_Witness ==
    /\ Len(nm) = 2
    /\ nm[1].op = "SimCommand" /\ nm[2].op = "RecCommand"
    /\ nm[1].key = nm[2].key
    /\ LastWord(nm[2].ret) =
         <<"o", "/", "T", "1", "/", "a", "i", "d", "2", "e", "_", "s", "i",
           "m", ".", "T", "1", "_", "s", "i", "n", "g", "l", "e", "_", "e",
           "l", "e", "c", "t", "r", "o", "n", "_", "c", "e", "n", "t", "r",
           "a", "l", "_", "e", "5", "e", "l", "e", ".", "e", "d", "m", "4",
           "h", "e", "p", ".", "r", "o", "o", "t">>

\* C14: MakeOutName and MakeScriptName are injective: two calls of the same
\* function with keys that differ in a component give different names
C14_Injective ==
    \A i, j \in DOMAIN nm :
        (nm[i].op = nm[j].op /\ nm[i].op \in {"MakeOutName", "MakeScriptName"}
                             /\ nm[i].key # nm[j].key)
            => nm[i].ret # nm[j].ret

\* the suffix the naming grammar gives a stage
ExpectedSuffix(stage, analysis) ==
    IF stage = <<"s", "i", "m">> THEN <<".", "e", "d", "m", "4", "h", "e", "p">>
    ELSE IF stage = <<"r", "e", "c">> THEN <<".", "e", "d", "m", "4", "e", "i", "c">>
    ELSE IF stage = <<"a", "n", "a">> THEN <<"_">> \o analysis
    ELSE <<>>

\* C15: MakeOutName(tag, label, steeringTag, stage, analysis) is
\* "aid2e_<stage>.<tag>_<label>_<steeringTag><suffix>.root", the suffix being
\* ".edm4hep" for sim, ".edm4eic" for rec, "_" + analysis for ana, and empty
\* for any other stage
C15_OutNameFormat ==
    \A i \in DOMAIN nm :
        nm[i].op = "MakeOutName" =>
            LET k == nm[i].key
            IN  nm[i].ret =
                    <<"a", "i", "d", "2", "e", "_">> \o k[4] \o <<".">> \o k[1] \o <<"_">> \o k[2]
                        \o <<"_">> \o k[3] \o ExpectedSuffix(k[4], k[5])
                        \o <<".", "r", "o", "o", "t">>

\* MakeOutName("T1", "single_electron", "central_e5ele", "sim") has returned
\* "aid2e_sim.T1_single_electron_central_e5ele.edm4hep.root"
C15_Witness ==
    \E i \in DOMAIN nm :
        /\ nm[i].op = "MakeOutName"
        /\ nm[i].key[4] = <<"s", "i", "m">>
        /\ nm[i].ret =
             <<"a", "i", "d", "2", "e", "_", "s", "i", "m", ".", "T", "1",
               "_", "s", "i", "n", "g", "l", "e", "_", "e", "l", "e", "c",
               "t", "r", "o", "n", "_", "c", "e", "n", "t", "r", "a", "l",
               "_", "e", "5", "e", "l", "e", ".", "e", "d", "m", "4", "h",
               "e", "p", ".", "r", "o", "o", "t">>

\* s with every "." turned into "_"
DotsToUnderscores(s) == [k \in DOMAIN s |-> IF s[k] = "." THEN "_" ELSE s[k]]

\* name splits into directory part, stem and final extension: the directory
\* part is empty or ends with the last "/", the extension is empty or starts
\* at the last ".", and dots that only lead the file name start no extension
SplitsInto(name, dir, stem, extn) ==
    /\ name = dir \o stem \o extn
    /\ dir = <<>> \/ dir[Len(dir)] = "/"
    /\ \A k \in DOMAIN stem : stem[k] # "/"
    /\ \A k \in DOMAIN extn : extn[k] # "/"
    /\ extn # <<>> =>
          /\ extn[1] = "."
          /\ \A k \in 2..Len(extn) : extn[k] # "."
          /\ \E k \in DOMAIN stem : stem[k] # "."
    /\ extn = <<>> =>
          \A k \in DOMAIN stem :
              stem[k] = "." => \A m \in 1..k : stem[m] = "."

\* C16: ConvertSteeringToTag(name) is the name without its directory part and
\* without its final extension, every "." left turned into "_"; it holds no
\* "/" and no "."
C16_SteeringTag ==
    \A i \in DOMAIN nm :
        nm[i].op = "ConvertSteeringToTag" =>
            LET name == nm[i].key[1]
                ret  == nm[i].ret
            IN  /\ \E a \in 0..Len(name) : \E b \in a..Len(name) :
                       /\ SplitsInto(name, SubSeq(name, 1, a), SubSeq(name, a + 1, b),
                                     SubSeq(name, b + 1, Len(name)))
                       /\ ret = DotsToUnderscores(SubSeq(name, a + 1, b))
                /\ \A k \in DOMAIN ret : ret[k] \notin {"/", "."}

\* ConvertSteeringToTag("central.e5ele.py") has returned "central_e5ele", and
\* a name with a dotted directory has lost it
C16_Witness ==
    /\ Len(nm) = 2
    /\ nm[1].op = "ConvertSteeringToTag"
    /\ nm[1].key[1] = <<"c", "e", "n", "t", "r", "a", "l", ".", "e", "5", "e", "l", "e", ".", "p", "y">>
    /\ nm[1].ret = <<"c", "e", "n", "t", "r", "a", "l", "_", "e", "5", "e", "l", "e">>
    /\ nm[2].op = "ConvertSteeringToTag"
    /\ nm[2].key[1] = <<"d", ".", "d", "/", "c", ".", "p", "y">>
    /\ nm[2].ret = <<"c">>

-----------------------------------------------------------------------------
(* Claims about the configuration parser *)

\* C19: GetParameter(name, configFile) returns the configured entry for
\* every name present under "parameters" in the file, and for every absent
\* name it raises an error whose message carries the name
C19_GetParameter ==
    (cp.op = "GetParameter" /\ ConfigFiles[cp.configFile].isfile) =>
        LET parameters == ConfigFiles[cp.configFile].data.parameters
        IN  IF cp.parameter \in DOMAIN parameters
            THEN cp.out = [kind |-> "return", val |-> parameters[cp.parameter]]
            ELSE /\ cp.out.kind = "raise"
                 /\ \E k \in DOMAIN cp.out.msg : cp.out.msg[k] = cp.parameter

\* C20: for a family whose instance count is n, GetDesignParamNames returns
\* exactly the keys with 1..n in place of "_fill_", each with its own entry
\* of the range table when it has one, whatever its value, and with the
\* family's entry otherwise
C20_DesignParamNames ==
    (cp.op = "GetDesignParamNames" /\ cp.pc = "done") =>
        LET value       == cp.dataDict[1][2]
            stem        == <<"s", "t", "a", "v", "e">>
            concrete(i) == stem \o ToStr(i)
            family      == stem \o <<"_", "f", "i", "l", "l", "_">>
            entry(i)    == IF concrete(i) \in DOMAIN cp.rangeDict
                           THEN cp.rangeDict[concrete(i)]
                           ELSE cp.rangeDict[family]
        IN  (/\ value.list
             /\ value.items # <<>>
             /\ \A i \in 1..value.items[1] :
                    concrete(i) \in DOMAIN cp.rangeDict \/ family \in DOMAIN cp.rangeDict)
            => /\ cp.out.kind = "return"
               /\ DOMAIN cp.out.val = { concrete(i) : i \in 1..value.items[1] }
               /\ \A i \in 1..value.items[1] : cp.out.val[concrete(i)] = entry(i)

\* C21: when some concrete key of a family has neither an entry of its own
\* nor a family entry in the range table, GetDesignParamNames ends with an
\* error and returns no mapping
C21_NoEntryRaises ==
    (cp.op = "GetDesignParamNames" /\ cp.pc = "done") =>
        LET value       == cp.dataDict[1][2]
            stem        == <<"s", "t", "a", "v", "e">>
            concrete(i) == stem \o ToStr(i)
            family      == stem \o <<"_", "f", "i", "l", "l", "_">>
        IN  (/\ value.list
             /\ value.items # <<>>
             /\ \E i \in 1..value.items[1] :
                    concrete(i) \notin DOMAIN cp.rangeDict
                        /\ family \notin DOMAIN cp.rangeDict)
            => cp.out.kind = "raise"

\* three instances, of which only the first has an entry: the call has ended
\* with KeyError after it had taken the first key's entry
C21_Witness ==
    /\ cp.op = "GetDesignParamNames"
    /\ cp.pc = "done"
    /\ cp.dataDict[1][2] = [list |-> TRUE, items |-> <<3>>]
    /\ DOMAIN cp.rangeDict = { <<"s", "t", "a", "v", "e", "1">> }
    /\ cp.rangeDict[<<"s", "t", "a", "v", "e", "1">>] = <<0, 1>>
    /\ DOMAIN cp.designParams = { <<"s", "t", "a", "v", "e", "1">> }
    /\ cp.out.kind = "raise"
    /\ cp.out.err = "KeyError"

-----------------------------------------------------------------------------
(* Claims about the accumulated arguments of RecGenerator *)

\* the positions at which sub occurs in s
Hits(s, sub) ==
    {i \in 1..(Len(s) - Len(sub) + 1) : SubSeq(s, i, i + Len(sub) - 1) = sub}

\* the first position at which sub occurs in s, 0 when there is none
Find(s, sub) ==
    IF Hits(s, sub) = {} THEN 0
    ELSE CHOOSE i \in Hits(s, sub) : \A j \in Hits(s, sub) : i <= j

\* call k of the log is a MakeCommand
IsMake(k) == k \in DOMAIN rg.log /\ rg.log[k].op = "MakeCommand"

\* call j added a parameter to the generator of call k, before it and with
\* no ClearArgs on that generator in between
LiveAt(k, j) ==
    /\ j \in 1..(k - 1)
    /\ rg.log[j].op = "AddParamToArgs"
    /\ rg.log[j].g = rg.log[k].g
    /\ \A c \in (j + 1)..(k - 1) :
           ~(rg.log[c].op = "ClearArgs" /\ rg.log[c].g = rg.log[k].g)

\* among the calls live at k, j is the first, or the last, that added its path
FirstAdd(k, j) ==
    /\ LiveAt(k, j)
    /\ \A i \in 1..(j - 1) :
           LiveAt(k, i) => rg.log[i].param.path # rg.log[j].param.path

LastAdd(k, j) ==
    /\ LiveAt(k, j)
    /\ \A i \in (j + 1)..(k - 1) :
           LiveAt(k, i) => rg.log[i].param.path # rg.log[j].param.path

\* " -P<path>=", and the whole flag " -P<path>="<value>*<unit>"" or
\* " -P<path>="<value>""
FlagStart(path) == <<" ", "-", "P">> \o path \o <<"=">>

FlagText(param, value) ==
    LET digits == CASE value = 0 -> <<"0">> [] value = 5 -> <<"5">>
                    [] value = 7 -> <<"7">>
    IN  FlagStart(param.path) \o <<"\"">> \o digits
            \o (IF param.units = <<>> THEN <<>> ELSE <<"*">> \o param.units)
            \o <<"\"">>

\* C22: every reconstruction command contains, for every parameter added to
\* its generator and not cleared since, the flag -P<path>="<value>*<unit>"
\* when the unit is not empty and -P<path>="<value>" when it is, with the
\* value last given for that path
C22_ParamFlags ==
    \A k \in DOMAIN rg.log :
        IsMake(k) =>
            \A j \in 1..(k - 1) :
                LastAdd(k, j) =>
                    Contains(rg.log[k].ret,
                             FlagText(rg.log[j].param, rg.log[j].value))

\* (path "CalHits/energy", unit "GeV", value 5) and a parameter without a
\* unit were added, and the command holds -PCalHits/energy="5*GeV" and -Pq="0"
C22_Witness ==
    \E k \in DOMAIN rg.log :
        /\ IsMake(k)
        /\ \E j \in 1..(k - 1) :
               /\ LastAdd(k, j)
               /\ rg.log[j].param.units = <<"G", "e", "V">>
               /\ rg.log[j].value = 5
        /\ \E j \in 1..(k - 1) : LastAdd(k, j) /\ rg.log[j].param.units = <<>>
        /\ Contains(rg.log[k].ret,
                    <<" ", "-", "P", "C", "a", "l", "H", "i", "t", "s", "/", "e",
                      "n", "e", "r", "g", "y", "=", "\"", "5", "*", "G", "e", "V",
                      "\"">>)
        /\ Contains(rg.log[k].ret, <<" ", "-", "P", "q", "=", "\"", "0", "\"", " ">>)

\* the AddParamToArgs and ClearArgs calls made on generator g, in order
RECURSIVE CallsOn(_, _)
CallsOn(log, g) ==
    IF log = <<>> THEN <<>>
    ELSE LET c == log[Len(log)]
             before == CallsOn(SubSeq(log, 1, Len(log) - 1), g)
         IN  IF c.g = g /\ c.op # "MakeCommand"
             THEN Append(before, <<c.op, c.param, c.value>>)
             ELSE before

\* C23: the flags of a reconstruction command stand in the order in which
\* their paths were first added, and two commands made with the same tag
\* after the same AddParamToArgs and ClearArgs calls, on either generator,
\* are the same string
C23_FlagOrder ==
    \A k \in DOMAIN rg.log :
        IsMake(k) =>
            /\ \A i, j \in 1..(k - 1) :
                   (i < j /\ FirstAdd(k, i) /\ FirstAdd(k, j)) =>
                       /\ Find(rg.log[k].ret, FlagStart(rg.log[i].param.path)) > 0
                       /\ Find(rg.log[k].ret, FlagStart(rg.log[i].param.path))
                            < Find(rg.log[k].ret, FlagStart(rg.log[j].param.path))
            /\ \A m \in DOMAIN rg.log :
                   (/\ IsMake(m)
                    /\ rg.log[m].t = rg.log[k].t
                    /\ CallsOn(SubSeq(rg.log, 1, m - 1), rg.log[m].g)
                         = CallsOn(SubSeq(rg.log, 1, k - 1), rg.log[k].g))
                   => rg.log[m].ret = rg.log[k].ret

\* CalHits/energy was added before q, and the command has them in that order
C23_Witness ==
    /\ Len(rg.log) >= 3
    /\ rg.log[1].op = "AddParamToArgs" /\ rg.log[1].g = "a"
    /\ rg.log[1].param.units = <<"G", "e", "V">>
    /\ rg.log[2].op = "AddParamToArgs" /\ rg.log[2].g = "a"
    /\ rg.log[2].param.path = <<"q">>
    /\ IsMake(3) /\ rg.log[3].g = "a"
    /\ Find(rg.log[3].ret, <<"-", "P", "C", "a", "l">>) > 0
    /\ Find(rg.log[3].ret, <<"-", "P", "C", "a", "l">>)
         < Find(rg.log[3].ret, <<"-", "P", "q", "=">>)

\* C28: a flag that stands in one command of a generator stands in every
\* later command of that generator, whatever the tag, until the generator is
\* cleared or the path is added again; and a command made right after
\* ClearArgs has no -P flag but the two podio arguments
C28_ArgsKept ==
    \A k \in DOMAIN rg.log :
        IsMake(k) =>
            /\ \A m \in 1..(k - 1) :
                   (/\ IsMake(m)
                    /\ rg.log[m].g = rg.log[k].g
                    /\ \A c \in (m + 1)..(k - 1) :
                           rg.log[c].g = rg.log[k].g => IsMake(c))
                   => \A j \in 1..(m - 1) :
                          LastAdd(m, j) =>
                              Contains(rg.log[k].ret,
                                       FlagText(rg.log[j].param, rg.log[j].value))
            /\ (\E c \in 1..(k - 1) :
                    /\ rg.log[c].op = "ClearArgs"
                    /\ rg.log[c].g = rg.log[k].g
                    /\ \A d \in (c + 1)..(k - 1) :
                           rg.log[d].g = rg.log[k].g => IsMake(d))
               => Cardinality(Hits(rg.log[k].ret, <<" ", "-", "P">>)) = 2

\* one parameter was added, and two commands for different tags both have
\* its flag
C28_Witness ==
    /\ Len(rg.log) >= 3
    /\ rg.log[1].op = "AddParamToArgs" /\ rg.log[1].g = "a"
    /\ rg.log[1].param.units = <<"m", "m">>
    /\ IsMake(2) /\ rg.log[2].g = "a"
    /\ IsMake(3) /\ rg.log[3].g = "a"
    /\ rg.log[2].t # rg.log[3].t
    /\ Contains(rg.log[2].ret, <<" ", "-", "P", "q", "=", "\"", "7", "*", "m", "m", "\"">>)
    /\ Contains(rg.log[3].ret, <<" ", "-", "P", "q", "=", "\"", "7", "*", "m", "m", "\"">>)

\* C29: a reconstruction command has exactly one flag for each path added
\* and not cleared since, and no other flag but the two podio arguments; a
\* path added twice has the unit and the value of the last addition, at the
\* place of the first
C29_OneFlagPerPath ==
    \A k \in DOMAIN rg.log :
        IsMake(k) =>
            /\ \A j \in 1..(k - 1) :
                   LiveAt(k, j) =>
                       Cardinality(Hits(rg.log[k].ret,
                                        FlagStart(rg.log[j].param.path))) = 1
            /\ Cardinality(Hits(rg.log[k].ret, <<" ", "-", "P">>))
                 = 2 + Cardinality({rg.log[j].param.path :
                                       j \in {i \in 1..(k - 1) : LiveAt(k, i)}})
            /\ \A i, j \in 1..(k - 1) :
                   (/\ i < j
                    /\ FirstAdd(k, i)
                    /\ LastAdd(k, j)
                    /\ rg.log[i].param.path = rg.log[j].param.path)
                   => /\ Contains(rg.log[k].ret,
                                  FlagText(rg.log[j].param, rg.log[j].value))
                      /\ (rg.log[i].param # rg.log[j].param
                             \/ rg.log[i].value # rg.log[j].value)
                         => ~Contains(rg.log[k].ret,
                                      FlagText(rg.log[i].param, rg.log[i].value))
                      /\ \A o \in (i + 1)..(j - 1) :
                             (FirstAdd(k, o)
                                 /\ rg.log[o].param.path # rg.log[i].param.path)
                             => Find(rg.log[k].ret, FlagStart(rg.log[i].param.path))
                                  < Find(rg.log[k].ret, FlagStart(rg.log[o].param.path))

\* q was added with a unit, then CalHits/energy, then q again without a unit:
\* the command has -Pq="0" once, before the flag of CalHits/energy
C29_Witness ==
    /\ Len(rg.log) = 4
    /\ \A j \in 1..3 : rg.log[j].op = "AddParamToArgs" /\ rg.log[j].g = "b"
    /\ rg.log[1].param = [path |-> <<"q">>, units |-> <<"m", "m">>]
    /\ rg.log[2].param.units = <<"G", "e", "V">>
    /\ rg.log[3].param = [path |-> <<"q">>, units |-> <<>>]
    /\ IsMake(4) /\ rg.log[4].g = "b"
    /\ Cardinality(Hits(rg.log[4].ret, <<"-", "P", "q", "=">>)) = 1
    /\ Contains(rg.log[4].ret,
                <<" ", "-", "P", "q", "=", "\"", "0", "\"", " ", "-", "P", "C", "a", "l">>)

-----------------------------------------------------------------------------
(* Claims about the generators and their run configuration *)

\* the text of s before its first blank
UpToBlank(s) ==
    LET blanks == {i \in 1..Len(s) : s[i] = " "}
    IN  IF blanks = {} THEN s
        ELSE SubSeq(s, 1, (CHOOSE i \in blanks : \A j \in blanks : i <= j) - 1)

\* C24: the -Ppodio:output_collections= argument of a reconstruction command
\* is the configured collections in their order with one "," between two
\* neighbours and none before, after or doubled, for lists of no, one, two
\* and three collections
C24_Collections ==
    gn.pc = "rec_script" =>
        LET c   == gn.cfgRun.rec_collect
            arg == UpToBlank(AfterFlag(gn.cmd,
                       <<"-", "P", "p", "o", "d", "i", "o", ":", "o", "u", "t",
                         "p", "u", "t", "_", "c", "o", "l", "l", "e", "c", "t",
                         "i", "o", "n", "s", "=">>))
        IN  arg = CASE Len(c) = 0 -> <<>>
                    [] Len(c) = 1 -> c[1]
                    [] Len(c) = 2 -> c[1] \o <<",">> \o c[2]
                    [] Len(c) = 3 -> c[1] \o <<",">> \o c[2] \o <<",">> \o c[3]

\* a command for three collections, with "H,C,T" as its argument
C24_Witness ==
    /\ gn.pc = "rec_script"
    /\ Len(gn.cfgRun.rec_collect) = 3
    /\ Contains(gn.cmd, <<"c", "o", "l", "l", "e", "c", "t", "i", "o", "n", "s",
                          "=", "H", ",", "C", ",", "T", " ">>)

\* the lines of a script but the "#!" line and the empty ones
Body(lines) ==
    SelectSeq(lines, LAMBDA l : l # <<>> /\ ~IsPrefix(<<"#", "!">>, l))

\* C25: the script MakeScript has just written is in run_path/<tag>, has the
\* name of the naming grammar, is executable, and consists of the line that
\* sources the configured setup, the line that exports DETECTOR_CONFIG set
\* to the config name, and the stage command, in this order
C25_ScriptStructure ==
    \A stage \in {StSim, StRec} :
        gn.pc = (IF stage = StSim THEN "rec" ELSE "done") =>
            LET path == gn.cfgRun.run_path \o <<"/">> \o gn.t
                          \o <<"/", "d", "o", "_", "a", "i", "d", "2", "e", "_">>
                          \o stage \o <<".">> \o gn.t
                          \o <<"_", "s", "_", "c", "_", "e", ".", "s", "h">>
            IN  /\ path \in DOMAIN fs
                /\ fs[path].kind = "script"
                /\ fs[path].mode = "0o777"
                /\ Body(fs[path].lines)
                     = << <<"s", "o", "u", "r", "c", "e", " ">> \o gn.cfgRun.epic_setup,
                          <<"e", "x", "p", "o", "r", "t", " ", "D", "E", "T", "E",
                            "C", "T", "O", "R", "_", "C", "O", "N", "F", "I", "G",
                            "=">> \o ConfigName(gn.t),
                          gn.cmd >>

\* C26: a generator call that has failed for its run configuration has
\* raised, and the file system is as it was when the call began
C26_FailsClean ==
    gn.pc = "failed" => (gn.out.kind = "raise" /\ fs = gn.before)

\* the directory in which path lies
Parent(path) == SubSeq(path, 1, LastIndex(path, "/") - 1)

\* C27: when a generator call has returned, the trial's output directory
\* (MakeCommand) or run directory (MakeScript) is a directory, whether it
\* was there before or not; nothing that was there before the call is gone
\* or changed but the script the call itself writes; MakeCommand makes
\* nothing but the directory; and every script lies in a directory
C27_MakeDir ==
    gn.pc \in {"sim_script", "rec", "rec_script", "done"} =>
        LET isCommand == gn.pc \in {"sim_script", "rec_script"}
            dir  == IF isCommand THEN gn.cfgRun.out_path \o <<"/">> \o gn.t
                    ELSE gn.cfgRun.run_path \o <<"/">> \o gn.t
            own  == IF gn.pc = "rec" THEN {SimScriptPath(gn.t, InLabel, InSteer)}
                    ELSE IF gn.pc = "done" THEN {RecScriptPath(gn.t, InLabel, InSteer)}
                    ELSE {}
        IN  /\ dir \in DOMAIN fs
            /\ fs[dir].kind = "dir"
            /\ \A path \in DOMAIN gn.before :
                   /\ path \in DOMAIN fs
                   /\ path \notin own => fs[path] = gn.before[path]
            /\ isCommand => DOMAIN fs \ DOMAIN gn.before \subseteq {dir}
            /\ \A path \in DOMAIN fs :
                   fs[path].kind = "script" =>
                       (Parent(path) \in DOMAIN fs /\ fs[Parent(path)].kind = "dir")

\* RecGenerator.MakeScript has returned: the run directory was there before
\* the call, with the simulation script in it, and both are as they were
C27_Witness ==
    /\ gn.pc = "done"
    /\ gn.cfgRun.run_path \o <<"/">> \o gn.t \in DOMAIN gn.before
    /\ SimScriptPath(gn.t, InLabel, InSteer) \in DOMAIN gn.before
    /\ fs[SimScriptPath(gn.t, InLabel, InSteer)]
         = gn.before[SimScriptPath(gn.t, InLabel, InSteer)]
    /\ gn.cfgRun.out_path \o <<"/">> \o <<"A">> \notin DOMAIN fs
    /\ gn.t = <<"T", "1">>

-----------------------------------------------------------------------------
(* The brute-force sweep *)

\* the assignments of staves 2 .. 6: st[k] is the value of stave k + 1
Assignments == [1..5 -> {0, 1}]

\* the command line that runs trial number i on assignment a
SweepCommand(i, a) ==
    <<"p", "y", "t", "h", "o", "n", " ", "b", "/", "i", "n", "t", "e", "r", "f", "a", "c", "e", "s", "/", "R", "u", "n", "O", "b", "j", "e", "c", "t", "i", "v", "e", "s", ".", "p", "y", " ", "-", "-", "t", "a", "g", " ", "B", "r", "u", "t", "T", "r", "i", "a", "l">>
        \o ToStr(i)
        \o <<" ", "-", "-", "e", "n", "a", "b", "l", "e", "_", "s", "t", "a", "v", "e", "s", "_", "2", " ">> \o ToStr(a[1])
        \o <<" ", "-", "-", "e", "n", "a", "b", "l", "e", "_", "s", "t", "a", "v", "e", "s", "_", "3", " ">> \o ToStr(a[2])
        \o <<" ", "-", "-", "e", "n", "a", "b", "l", "e", "_", "s", "t", "a", "v", "e", "s", "_", "4", " ">> \o ToStr(a[3])
        \o <<" ", "-", "-", "e", "n", "a", "b", "l", "e", "_", "s", "t", "a", "v", "e", "s", "_", "5", " ">> \o ToStr(a[4])
        \o <<" ", "-", "-", "e", "n", "a", "b", "l", "e", "_", "s", "t", "a", "v", "e", "s", "_", "6", " ">> \o ToStr(a[5])

\* the last line of the script that job number i submitted
JobCommand(i) == LET lines == fs[sw.jobs[i + 1]].lines IN lines[Len(lines)]

\* what the sweep has done when it is over
SweepOutcome ==
    /\ Len(sw.jobs) = 32
    /\ \A i \in 0..31 :
          /\ sw.jobs[i + 1] = <<"r", "/", "R", "u", "n">> \o BrutTag(i) \o DotSh
          /\ sw.jobs[i + 1] \in DOMAIN fs
          /\ \E a \in Assignments : JobCommand(i) = SweepCommand(i, a)
    /\ \A a \in Assignments :
          Cardinality({i \in 0..31 : JobCommand(i) = SweepCommand(i, a)}) = 1

\* C30: the brute-force sweep terminates after submitting exactly 32 jobs; it
\* never submits more; every one of the 2^5 assignments of staves 2 .. 6 is
\* submitted exactly once; job number i has the tag BrutTrial<i> and the
\* script Run<tag>.sh, and the k-th value of its parameter list is passed as
\* --enable_staves_<k+2> (k counted from 0)
C30_SweepTerminates ==
    /\ <>(sw.pc = "end")
    /\ [](Len(sw.jobs) <= 32)
    /\ [](sw.pc = "end" => SweepOutcome)

C30_Witness == sw.pc = "end" /\ Len(sw.jobs) = 32 /\ JobCommand(31) = SweepCommand(31, [k \in 1..5 |-> 1])
=============================================================================
